---- MODULE Spec2Model ----
(***************************************************************************)
(* Model of lynx's multi-provider AI interface (AIInterface in             *)
(* src/src/lynx/codex/ai_interface.py) and of the token helpers it uses    *)
(* (src/utils.py): the provider fallback loop, the per-provider retry      *)
(* loop, the usage ledger and the hierarchical summary aggregation.        *)
(*                                                                         *)
(* A text is the sequence of its tokens; a token is a triple               *)
(* <<kind, a, b>>.  An engine call runs on a thread; every provider        *)
(* invocation and every read and write of the ledger is a step of its own. *)
(***************************************************************************)
EXTENDS Integers, Sequences, FiniteSets, TLC

VARIABLES
    config,             \* CodexConfig: models (the chain), retry_attempts, fallback_enabled
    behaviour,          \* environment: how each provider of the chain answers an invoke
    total_tokens_used,  \* AIInterface.total_tokens_used
    total_requests,     \* AIInterface.total_requests
    provider_stats,     \* AIInterface.provider_stats: provider name -> reference (0: no entry)
    heap,               \* the per-provider stats dicts, by reference
    snap,               \* the dicts returned by get_usage_stats so far (at most one)
    th,                 \* the threads running engine calls
    ncalls,             \* engine calls started so far
    maxcalls,           \* engine calls the caller makes
    orch,               \* CodexSummarizer: the run of summarize_codebase
    fn                  \* a call of a function of its own: arguments and result

vars == <<config, behaviour, total_tokens_used, total_requests, provider_stats,
          heap, snap, th, ncalls, maxcalls, orch, fn>>

\* what no step of a run changes
setup == <<config, behaviour, maxcalls>>

-----------------------------------------------------------------------------
(* Bounds of the model *)

MaxProviders == 3
MaxRetry == 2
MaxCalls == 2
MaxThreads == 2
MaxFiles == 2
MaxWorkers == 2
MaxLen == 30
MaxBudget == 20
MaxModels == 3
MaxLines == 2

-----------------------------------------------------------------------------
(* Helpers *)

Min(a, b) == IF a <= b THEN a ELSE b

Max(a, b) == IF a >= b THEN a ELSE b

\* Python's seq[:m]: a negative m counts from the end.
SliceTo(s, m) ==
    IF m >= 0 THEN SubSeq(s, 1, Min(m, Len(s)))
    ELSE SubSeq(s, 1, Max(Len(s) + m, 0))

\* a slice that leaves out its first member
SliceFromSecond(s, a, n) == SubSeq(s, a + 2, Min(a + n, Len(s)))

\* Python's seq[a:a+n] with 0 <= a.
SliceFrom(s, a, n) == SubSeq(s, a + 1, Min(a + n, Len(s)))

-----------------------------------------------------------------------------
(* Tokens and texts *)

SepTok == <<"\n\n", 0, 0>>
WsTok == <<"\n", 0, 0>>
ErrorTok == <<"Error:", 0, 0>>

\* a text of n tokens, all of them tagged id
MkText(kind, id, n) == [k \in 1..n |-> <<kind, id, k>>]

\* "\n... [truncated]"
TruncationMarker == <<WsTok, <<"...", 0, 0>>, <<"[truncated]", 0, 0>>>>

\* "No content to summarize"
NoContent == <<<<"No content to summarize", 0, 0>>>>

count_tokens(text) == IF text = <<>> THEN 0 ELSE Len(text)

ReserveTokens == 10

RECURSIVE MergeNewlines(_)
\* two newlines in a row read as one blank line
MergeNewlines(text) ==
    IF Len(text) < 2 THEN text
    ELSE IF text[1] = WsTok /\ text[2] = WsTok
         THEN <<SepTok>> \o MergeNewlines(SubSeq(text, 3, Len(text)))
         ELSE <<text[1]>> \o MergeNewlines(Tail(text))

RECURSIVE SplitNewlines(_)
\* a blank line read as its two newlines
SplitNewlines(text) ==
    IF text = <<>> THEN <<>>
    ELSE (IF Head(text) = SepTok THEN <<WsTok, WsTok>> ELSE <<Head(text)>>)
             \o SplitNewlines(Tail(text))

\* truncated_text + "\n... [truncated]": a newline that ends the text reads
\* with the newline of the marker as one blank line
AddMarker(truncated_text) ==
    LET n == Len(truncated_text)
    IN IF n > 0 /\ truncated_text[n] = WsTok
       THEN SubSeq(truncated_text, 1, n - 1) \o <<SepTok>> \o Tail(TruncationMarker)
       ELSE truncated_text \o TruncationMarker

\* encoder.decode(tokens[:max_tokens - 10]) + "\n... [truncated]"
truncate_text(text, max_tokens) ==
    IF count_tokens(text) <= max_tokens THEN text
    ELSE AddMarker(SliceTo(text, max_tokens - ReserveTokens))

RECURSIVE Join(_)
\* "\n\n".join(texts)
Join(texts) ==
    IF texts = <<>> THEN <<>>
    ELSE IF Len(texts) = 1 THEN texts[1]
    ELSE texts[1] \o <<SepTok>> \o Join(Tail(texts))

\* the tokens that are whitespace only: a newline, a blank line
Whitespace == {WsTok, SepTok}

RECURSIVE LStrip(_)
\* str.lstrip()
LStrip(text) ==
    IF text # <<>> /\ Head(text) \in Whitespace THEN LStrip(Tail(text)) ELSE text

RECURSIVE RStrip(_)
\* str.rstrip()
RStrip(text) ==
    IF text # <<>> /\ text[Len(text)] \in Whitespace
    THEN RStrip(SubSeq(text, 1, Len(text) - 1)) ELSE text

\* str.strip()
Strip(text) == LStrip(RStrip(text))

DefaultContextLimit == 4096

get_model_context_limit(model) ==
    CASE model = "gpt-4" -> 8192
      [] model = "gpt-4-turbo" -> 128000
      [] model = "gpt-4o" -> 128000
      [] model = "gpt-3.5-turbo" -> 4096
      [] model = "gpt-3.5-turbo-16k" -> 16384
      [] model = "sonar-large-chat" -> 16384
      [] model = "sonar-medium-chat" -> 16384
      [] model = "sonar-small-chat" -> 16384
      [] model = "sonar-large-online" -> 16384
      [] model = "sonar-medium-online" -> 16384
      [] model = "claude-3-opus-20240229" -> 200000
      [] model = "claude-3-sonnet-20240229" -> 200000
      [] model = "claude-3-haiku-20240307" -> 200000
      [] model = "claude-2.1" -> 200000
      [] model = "claude-2.0" -> 100000
      [] model = "claude-instant-1.2" -> 100000
      [] OTHER -> DefaultContextLimit

PromptReserve == 1000

\* the budget of the primary provider, whatever provider is tried
MaxContentTokensPrimary(mc) ==
    Min(get_model_context_limit(config.models[1].model) - PromptReserve,
        config.models[1].max_tokens)

\* min(context_limit - 1000, provider.model_config.max_tokens)
MaxContentTokens(mc) ==
    Min(get_model_context_limit(mc.model) - PromptReserve, mc.max_tokens)

-----------------------------------------------------------------------------
(* Configuration *)

OpenAI == [provider |-> "openai", model |-> "gpt-4", max_tokens |-> 12]
OpenAI35 == [provider |-> "openai", model |-> "gpt-3.5-turbo", max_tokens |-> 12]
Anthropic == [provider |-> "anthropic", model |-> "claude-2.1", max_tokens |-> 40]
Perplexity == [provider |-> "perplexity", model |-> "sonar-small-chat", max_tokens |-> 12]

ProviderNames == {"openai", "anthropic", "perplexity"}

\* chains of one to three models that AIInterface._initialize_providers
\* builds (it raises on an empty one)
AllChains ==
    { <<OpenAI>>,
      <<OpenAI, Anthropic>>,
      <<Anthropic, OpenAI>>,
      <<OpenAI, OpenAI35>>,
      <<OpenAI, Anthropic, Perplexity>> }

Chains == {c \in AllChains : Len(c) <= MaxProviders}

Behaviours == {"ok", "fail", "flaky"}

\* how the providers of a chain of n answer: each of them answers every
\* invoke, or raises on every invoke, or raises on some and answers others
Profiles(n) == [1..n -> Behaviours]

\* the outcomes (TRUE: a response, FALSE: an exception, none: the invoke never
\* returns) of invoking a provider
Outcomes(b) ==
    CASE b = "ok" -> {TRUE}
      [] b = "fail" -> {FALSE}
      [] b = "hang" -> {}
      [] OTHER -> BOOLEAN

providers == config.models

-----------------------------------------------------------------------------
(* SummaryResponse *)

NoError == <<>>

\* str(AIInterfaceError("All retry attempts failed for {provider_name}. ..."))
RetryError(name) == <<"All retry attempts failed for", name>>

SuccessResponse(summary, tokens, mc, is_fallback) ==
    [summary |-> summary, tokens_used |-> tokens, model_used |-> mc.model,
     provider_used |-> mc.provider, error |-> NoError, fallback_used |-> is_fallback]

\* the response of total failure without its error field
AllFailedResponseNoError(kind, e, is_fallback) ==
    [summary |-> <<ErrorTok, <<"All AI providers failed", 0, 0>>>>,
     tokens_used |-> 0, model_used |-> "none", provider_used |-> "none",
     error |-> NoError, fallback_used |-> is_fallback]

\* "Error: All AI providers failed. Last error: ..."
AllFailedResponse(kind, e, is_fallback) ==
    [summary |-> <<ErrorTok, <<"All AI providers failed", 0, 0>>>>
                 \o (IF kind = "aggregate" THEN <<<<"during aggregation", 0, 0>>>> ELSE <<>>),
     tokens_used |-> 0, model_used |-> "none", provider_used |-> "none",
     error |-> e, fallback_used |-> is_fallback]

\* the response of a failure without fallback, flagged as a fallback
FallbackDisabledResponseFlagged(mc, e) ==
    [summary |-> <<ErrorTok, <<mc.provider, 0, 0>>, <<"failed and fallback disabled", 0, 0>>>>,
     tokens_used |-> 0, model_used |-> mc.model, provider_used |-> mc.provider,
     error |-> e, fallback_used |-> TRUE]

\* "Error: {provider} failed and fallback disabled"
FallbackDisabledResponse(mc, e) ==
    [summary |-> <<ErrorTok, <<mc.provider, 0, 0>>, <<"failed and fallback disabled", 0, 0>>>>,
     tokens_used |-> 0, model_used |-> mc.model, provider_used |-> mc.provider,
     error |-> e, fallback_used |-> FALSE]

StartsWithError(text) == text # <<>> /\ text[1] = ErrorTok

-----------------------------------------------------------------------------
(* Threads *)

Threads == DOMAIN th

IdleThread ==
    [pc |-> "idle", kind |-> "none", content |-> <<>>, summaries |-> <<>>,
     i |-> 0, attempt |-> 0, prompt |-> <<>>, input |-> <<>>,
     tokens_used |-> 0, response |-> <<>>, path |-> "none",
     cur |-> <<>>, next_level |-> <<>>, bi |-> 0, lvl |-> 0,
     reg |-> 0, ref |-> 0, e |-> NoError, ret |-> <<>>,
     \* history of the call: invocations in flight, invocations and failed
     \* invocations per provider, the provider invoked last and its run of
     \* consecutive failures
     inflight |-> 0, inv |-> <<>>, fails |-> <<>>, last |-> 0, run |-> 0,
     \* the provider whose request raised last (0: none did)
     exc |-> 0,
     \* the ledger when the call started (kept on an engine that is called
     \* from one thread only), the tokens (prompt content and response) of the
     \* invokes of the call that answered, and the seconds of each
     \* time.sleep of the retry loop that ran last
     at_start |-> <<>>, sent |-> 0, sleeps |-> <<>>]

Zeroes == [k \in 1..Len(providers) |-> 0]

\* provider_stats[name], an absent entry read as zeroes
StatsOf(name) ==
    IF provider_stats[name] = 0 THEN [requests |-> 0, tokens |-> 0, errors |-> 0]
    ELSE heap[provider_stats[name]]

\* the counters of the engine, by value
LedgerNow ==
    [total_tokens_used |-> total_tokens_used, total_requests |-> total_requests,
     stats |-> [n \in DOMAIN provider_stats |-> StatsOf(n)]]

NewCall(kind, content, summaries) ==
    [IdleThread EXCEPT !.pc = "for", !.kind = kind, !.content = content,
                       !.summaries = summaries, !.i = 1,
                       !.inv = Zeroes, !.fails = Zeroes,
                       !.at_start = IF Cardinality(Threads) = 1 THEN LedgerNow ELSE <<>>]

Quiet(t) == th[t].pc \in {"idle", "done"}

\* the ledger and the environment, for UNCHANGED
ledger == <<total_tokens_used, total_requests, provider_stats, heap>>

-----------------------------------------------------------------------------
(* Inputs *)

\* request.content: a short file and one over every provider's budget
Contents == {MkText("src", 1, 3), MkText("src", 2, 45)}

\* n summaries of len tokens each
Summaries(n, len) == [k \in 1..n |-> MkText("sum", k, len)]

\* the lists to aggregate: none, one over the smaller budgets, two that fit
\* every budget, eleven that fit the larger budget only, twenty-five one-token
\* summaries over every budget
SummaryLists ==
    {<<>>, Summaries(1, 14), Summaries(2, 2), Summaries(11, 2), Summaries(25, 1)}

-----------------------------------------------------------------------------
(* summarize_file *)

\* enumerate(self.providers): the index after i
NextProvider(i) == i + 1

\* i == len(self.providers) - 1, with i counted from 1
IsLastProvider(i) == i = Len(providers)

\* fallback from the third provider on only
IsFallbackLater(i) == i > 2

\* i > 0, with i counted from 1
IsFallback(i) == i > 1

\* one try too many: attempt <= retry_attempts
HasAttemptOffByOne(attempt) == attempt <= config.retry_attempts

\* for attempt in range(self.config.retry_attempts)
HasAttempt(attempt) == attempt < config.retry_attempts

\* response.content of a successful invoke: generated text and a trailing newline
Respond(lvl, b) == <<<<"out", lvl, b>>, WsTok>>

StartSummarize(t, c) ==
    /\ Quiet(t)
    /\ ncalls < maxcalls
    /\ ncalls' = ncalls + 1
    /\ th' = [th EXCEPT ![t] = NewCall("summarize", c, <<>>)]
    /\ UNCHANGED <<setup, orch, fn, ledger, snap>>

\* _attempt_summarization up to the request: the content cut to the provider's budget
AttemptSummarization(t) ==
    /\ th[t].pc = "for"
    /\ th[t].kind = "summarize"
    /\ LET mc == providers[th[t].i]
           content_truncated == truncate_text(th[t].content, MaxContentTokens(mc))
       IN th' = [th EXCEPT ![t].pc = "retry", ![t].path = "sum",
                           ![t].prompt = content_truncated,
                           ![t].input = content_truncated,
                           ![t].attempt = 0, ![t].sleeps = <<>>]
    /\ UNCHANGED <<setup, orch, fn, ledger, snap, ncalls>>

\* _make_request_with_retry: provider.invoke(prompt) is called
InvokeStart(t) ==
    /\ th[t].pc = "retry"
    /\ HasAttempt(th[t].attempt)
    /\ LET i == th[t].i
       IN th' = [th EXCEPT ![t].pc = "invoke",
                           ![t].inflight = @ + 1,
                           ![t].inv[i] = @ + 1,
                           ![t].run = IF th[t].last = i THEN @ ELSE 0,
                           ![t].last = i]
    /\ UNCHANGED <<setup, orch, fn, ledger, snap, ncalls>>

\* _make_request_with_retry: the loop is over, raise AIInterfaceError
RaiseExhausted(t) ==
    /\ th[t].pc = "retry"
    /\ ~HasAttempt(th[t].attempt)
    /\ th' = [th EXCEPT ![t].pc = "except",
                        ![t].e = RetryError(providers[th[t].i].provider),
                        ![t].exc = th[t].i]
    /\ UNCHANGED <<setup, orch, fn, ledger, snap, ncalls>>

\* wait_time = (2 ** attempt) * 1
wait_time(attempt) == (2 ^ attempt) * 1

\* if attempt < self.config.retry_attempts - 1: time.sleep(wait_time)
Sleeps(attempt) ==
    IF attempt < config.retry_attempts - 1 THEN <<wait_time(attempt)>> ELSE <<>>

\* the failed try is not counted
ErrorIncrementNone == 1 - 1

\* self.provider_stats[provider_name]['errors'] += 1
ErrorIncrement == 1

\* a new entry that holds a request already
OneRequestStats == [requests |-> 1, tokens |-> 0, errors |-> 0]

\* {'requests': 0, 'tokens': 0, 'errors': 0}
ZeroStats == [requests |-> 0, tokens |-> 0, errors |-> 0]

\* the counter is set, not incremented
CountErrorSet(stats) == [stats EXCEPT !.errors = ErrorIncrement]

\* self.provider_stats[provider_name]['errors'] += 1, on the dict of the provider
CountError(stats) == [stats EXCEPT !.errors = @ + ErrorIncrement]

\* provider.invoke raised: the error is counted, then the loop goes on
InvokeFailure(t) ==
    /\ th[t].pc = "invoke"
    /\ FALSE \in Outcomes(behaviour[th[t].i])
    /\ LET name == providers[th[t].i].provider
           r == provider_stats[name]
       IN IF r = 0
          THEN /\ heap' = Append(heap, CountError(ZeroStats))
               /\ provider_stats' = [provider_stats EXCEPT ![name] = Len(heap) + 1]
          ELSE /\ heap' = [heap EXCEPT ![r] = CountError(@)]
               /\ UNCHANGED provider_stats
    /\ th' = [th EXCEPT ![t].pc = "retry",
                        ![t].attempt = @ + 1,
                        ![t].inflight = @ - 1,
                        ![t].fails[th[t].i] = @ + 1,
                        ![t].run = @ + 1,
                        ![t].sleeps = @ \o Sleeps(th[t].attempt)]
    /\ UNCHANGED <<setup, orch, fn, total_tokens_used, total_requests, snap, ncalls>>

\* provider.invoke returned: the tokens of the request are counted
InvokeSuccess(t) ==
    /\ th[t].pc = "invoke"
    /\ TRUE \in Outcomes(behaviour[th[t].i])
    /\ LET response == Respond(th[t].lvl, th[t].bi)
       IN th' = [th EXCEPT ![t].pc = "l307r",
                           ![t].response = response,
                           ![t].inflight = @ - 1,
                           ![t].run = 0,
                           ![t].next_level =
                               IF th[t].path = "hier" THEN Append(@, Strip(response)) ELSE @,
                           ![t].tokens_used =
                               count_tokens(th[t].input) + count_tokens(response),
                           ![t].sent =
                               @ + count_tokens(th[t].prompt) + count_tokens(response)]
    /\ UNCHANGED <<setup, orch, fn, ledger, snap, ncalls>>

-----------------------------------------------------------------------------
(* The usage ledger: self.total_tokens_used += tokens_used and the lines    *)
(* after it (307-314, and again 399-406 and 443-450), one read or write of  *)
(* shared state per step                                                    *)

Goto(t, pc) == th' = [th EXCEPT ![t].pc = pc]

\* the request is counted for the provider, its tokens are not
CountRequestOnly(stats, tokens_used) == [stats EXCEPT !.requests = @ + 1]

\* self.provider_stats[provider_name]['requests'] += 1 and ['tokens'] += tokens_used
CountRequest(stats, tokens_used) ==
    [stats EXCEPT !.requests = @ + 1, !.tokens = @ + tokens_used]

\* lines 307-314 run without another thread in between
RecordUsage(t) ==
    /\ th[t].pc = "l307r"
    /\ LET name == providers[th[t].i].provider
           r == provider_stats[name]
           ref == IF r = 0 THEN Len(heap) + 1 ELSE r
           h == IF r = 0 THEN Append(heap, [requests |-> 0, tokens |-> 0, errors |-> 0])
                ELSE heap
       IN /\ total_tokens_used' = total_tokens_used + th[t].tokens_used
          /\ total_requests' = total_requests + 1
          /\ provider_stats' = [provider_stats EXCEPT ![name] = ref]
          /\ heap' = [h EXCEPT ![ref] = CountRequest(@, th[t].tokens_used)]
    /\ Goto(t, "after")
    /\ UNCHANGED <<setup, orch, fn, snap, ncalls>>

ReadTotalTokens(t) ==
    /\ th[t].pc = "l307r"
    /\ th' = [th EXCEPT ![t].pc = "l307w", ![t].reg = total_tokens_used]
    /\ UNCHANGED <<setup, orch, fn, ledger, snap, ncalls>>

WriteTotalTokens(t) ==
    /\ th[t].pc = "l307w"
    /\ total_tokens_used' = th[t].reg + th[t].tokens_used
    /\ Goto(t, "l308r")
    /\ UNCHANGED <<setup, orch, fn, total_requests, provider_stats, heap, snap, ncalls>>

ReadTotalRequests(t) ==
    /\ th[t].pc = "l308r"
    /\ th' = [th EXCEPT ![t].pc = "l308w", ![t].reg = total_requests]
    /\ UNCHANGED <<setup, orch, fn, ledger, snap, ncalls>>

WriteTotalRequests(t) ==
    /\ th[t].pc = "l308w"
    /\ total_requests' = th[t].reg + 1
    /\ Goto(t, "l311")
    /\ UNCHANGED <<setup, orch, fn, total_tokens_used, provider_stats, heap, snap, ncalls>>

\* if provider_name not in self.provider_stats
TestStatsEntry(t) ==
    /\ th[t].pc = "l311"
    /\ Goto(t, IF provider_stats[providers[th[t].i].provider] = 0 THEN "l312" ELSE "l313r")
    /\ UNCHANGED <<setup, orch, fn, ledger, snap, ncalls>>

\* self.provider_stats[provider_name] = {'requests': 0, 'tokens': 0, 'errors': 0}
CreateStatsEntry(t) ==
    /\ th[t].pc = "l312"
    /\ heap' = Append(heap, [requests |-> 0, tokens |-> 0, errors |-> 0])
    /\ provider_stats' = [provider_stats EXCEPT ![providers[th[t].i].provider] = Len(heap) + 1]
    /\ Goto(t, "l313r")
    /\ UNCHANGED <<setup, orch, fn, total_tokens_used, total_requests, snap, ncalls>>

ReadStatsRequests(t) ==
    /\ th[t].pc = "l313r"
    /\ LET r == provider_stats[providers[th[t].i].provider]
       IN th' = [th EXCEPT ![t].pc = "l313w", ![t].ref = r, ![t].reg = heap[r].requests]
    /\ UNCHANGED <<setup, orch, fn, ledger, snap, ncalls>>

WriteStatsRequests(t) ==
    /\ th[t].pc = "l313w"
    /\ heap' = [heap EXCEPT ![th[t].ref].requests = th[t].reg + 1]
    /\ Goto(t, "l314r")
    /\ UNCHANGED <<setup, orch, fn, total_tokens_used, total_requests, provider_stats,
                   snap, ncalls>>

ReadStatsTokens(t) ==
    /\ th[t].pc = "l314r"
    /\ LET r == provider_stats[providers[th[t].i].provider]
       IN th' = [th EXCEPT ![t].pc = "l314w", ![t].ref = r, ![t].reg = heap[r].tokens]
    /\ UNCHANGED <<setup, orch, fn, ledger, snap, ncalls>>

WriteStatsTokens(t) ==
    /\ th[t].pc = "l314w"
    /\ heap' = [heap EXCEPT ![th[t].ref].tokens = th[t].reg + th[t].tokens_used]
    /\ Goto(t, "after")
    /\ UNCHANGED <<setup, orch, fn, total_tokens_used, total_requests, provider_stats,
                   snap, ncalls>>

-----------------------------------------------------------------------------
(* Returning *)

Return(t, response) ==
    th' = [th EXCEPT ![t].pc = "done", ![t].ret = Append(@, response)]

\* _attempt_summarization and the single request of _attempt_aggregation:
\* return SummaryResponse(summary=response.content.strip(), ...)
ReturnSuccess(t) ==
    /\ th[t].pc = "after"
    /\ th[t].path \in {"sum", "single"}
    /\ Return(t, SuccessResponse(Strip(th[t].response), th[t].tokens_used,
                                 providers[th[t].i], IsFallback(th[t].i)))
    /\ UNCHANGED <<setup, orch, fn, ledger, snap, ncalls>>

\* the except branch without its test of config.fallback_enabled
ExceptResponseNoFlag(kind, i, e) ==
    IF IsLastProvider(i) THEN <<AllFailedResponse(kind, e, IsFallback(i))>> ELSE <<>>

\* the response of the except branch of summarize_file and aggregate_summaries
\* for provider i, or <<>> when the loop goes on to the next provider
ExceptResponse(kind, i, e) ==
    IF IsLastProvider(i) THEN <<AllFailedResponse(kind, e, IsFallback(i))>>
    ELSE IF config.fallback_enabled THEN <<>>
    ELSE <<FallbackDisabledResponse(providers[i], e)>>

\* except Exception as e, in summarize_file and aggregate_summaries
Except(t) ==
    /\ th[t].pc = "except"
    /\ LET r == ExceptResponse(th[t].kind, th[t].i, th[t].e)
       IN IF r = <<>>
          THEN th' = [th EXCEPT ![t].pc = "for", ![t].i = NextProvider(@)]
          ELSE Return(t, r[1])
    /\ UNCHANGED <<setup, orch, fn, ledger, snap, ncalls>>

-----------------------------------------------------------------------------
(* aggregate_summaries *)

\* batches of one summary
ChunkSizeOne == 0 + 1

\* chunk_size = 10  # Process 10 summaries at a time
ChunkSize == 10

StartAggregate(t, summaries) ==
    /\ Quiet(t)
    /\ ncalls < maxcalls
    /\ ncalls' = ncalls + 1
    /\ th' = [th EXCEPT ![t] = NewCall("aggregate", <<>>, summaries)]
    /\ UNCHANGED <<setup, orch, fn, ledger, snap>>

\* no list is too large for a single request
TooLargeNever(combined_text, mc) == count_tokens(combined_text) < 0

\* combined_tokens > max_tokens
TooLarge(combined_text, mc) == count_tokens(combined_text) > MaxContentTokens(mc)

\* _attempt_aggregation up to the request, or up to the call of
\* _hierarchical_aggregation
AttemptAggregation(t) ==
    /\ th[t].pc = "for"
    /\ th[t].kind = "aggregate"
    /\ LET mc == providers[th[t].i]
           combined_text == Join(th[t].summaries)
       IN IF TooLarge(combined_text, mc)
          THEN th' = [th EXCEPT ![t].pc = "hwhile", ![t].path = "hier",
                                ![t].cur = th[t].summaries,
                                ![t].next_level = <<>>,
                                ![t].bi = 0, ![t].lvl = 0]
          ELSE th' = [th EXCEPT ![t].pc = "retry", ![t].path = "single",
                                ![t].prompt = combined_text,
                                ![t].input = combined_text,
                                ![t].bi = 0, ![t].lvl = 0,
                                ![t].attempt = 0, ![t].sleeps = <<>>]
    /\ UNCHANGED <<setup, orch, fn, ledger, snap, ncalls>>

\* while len(summaries) > 1: next_level = []
HLevel(t) ==
    /\ th[t].pc = "hwhile"
    /\ Len(th[t].cur) > 1
    /\ th' = [th EXCEPT ![t].pc = "hfor", ![t].next_level = <<>>, ![t].bi = 0]
    /\ UNCHANGED <<setup, orch, fn, ledger, snap, ncalls>>

\* final_summary = summaries[0] if summaries else "No content to summarize"
FinalSummary(cur) == IF cur # <<>> THEN cur[1] ELSE NoContent

\* the loop of _hierarchical_aggregation is over: the response is returned,
\* its tokens_used read from the ledger
HReturn(t) ==
    /\ th[t].pc = "hwhile"
    /\ ~(Len(th[t].cur) > 1)
    /\ Return(t, SuccessResponse(FinalSummary(th[t].cur), total_tokens_used,
                                 providers[th[t].i], IsFallback(th[t].i)))
    /\ UNCHANGED <<setup, orch, fn, ledger, snap, ncalls>>

\* for i in range(0, len(summaries), chunk_size): the request of one batch
HBatch(t) ==
    /\ th[t].pc = "hfor"
    /\ th[t].bi < Len(th[t].cur)
    /\ LET chunk == SliceFrom(th[t].cur, th[t].bi, ChunkSize)
           combined == Join(chunk)
           combined_truncated ==
               truncate_text(combined, MaxContentTokens(providers[th[t].i]))
       IN th' = [th EXCEPT ![t].pc = "retry",
                           ![t].prompt = combined_truncated,
                           ![t].input = combined,
                           ![t].attempt = 0, ![t].sleeps = <<>>]
    /\ UNCHANGED <<setup, orch, fn, ledger, snap, ncalls>>

\* the batches of a level are done: summaries = next_level
HLevelDone(t) ==
    /\ th[t].pc = "hfor"
    /\ ~(th[t].bi < Len(th[t].cur))
    /\ th' = [th EXCEPT ![t].pc = "hwhile", ![t].cur = th[t].next_level,
                        ![t].lvl = @ + 1]
    /\ UNCHANGED <<setup, orch, fn, ledger, snap, ncalls>>

\* a batch is reduced and counted: on to the next one
HNext(t) ==
    /\ th[t].pc = "after"
    /\ th[t].path = "hier"
    /\ th' = [th EXCEPT ![t].pc = "hfor", ![t].bi = @ + ChunkSize]
    /\ UNCHANGED <<setup, orch, fn, ledger, snap, ncalls>>

-----------------------------------------------------------------------------
(* get_usage_stats *)

\* the dict get_usage_stats returns: the counters by value and
\* self.provider_stats.copy(), a new dict that holds the same inner dicts
get_usage_stats ==
    [total_requests |-> total_requests,
     total_tokens_used |-> total_tokens_used,
     primary_model |-> providers[1].model,
     primary_provider |-> providers[1].provider,
     providers_configured |-> Len(providers),
     fallback_enabled |-> config.fallback_enabled,
     provider_stats |-> provider_stats]

GetUsageStats ==
    /\ \A t \in Threads : Quiet(t)
    /\ snap = <<>>
    /\ snap' = <<get_usage_stats>>
    /\ UNCHANGED <<setup, orch, fn, ledger, th, ncalls>>

-----------------------------------------------------------------------------
(* The engine, one call at a time *)

EmptyStats == [n \in ProviderNames |-> 0]

\* no run of summarize_codebase
NoRun == [pc |-> "none"]

\* no function call
NoCall == [op |-> "none"]

\* AIInterface.__init__: the counters of a new engine
FreshEngine ==
    /\ total_tokens_used = 0
    /\ total_requests = 0
    /\ provider_stats = EmptyStats
    /\ heap = <<>>
    /\ snap = <<>>
    /\ ncalls = 0

\* a new engine and one call on it
Init ==
    /\ config \in [models : Chains, retry_attempts : 0..MaxRetry, fallback_enabled : BOOLEAN]
    /\ behaviour \in Profiles(Len(config.models))
    /\ FreshEngine
    /\ th = [t \in {1} |-> IdleThread]
    /\ maxcalls = 1
    /\ orch = NoRun
    /\ fn = NoCall

Next ==
    \/ \E t \in Threads, c \in Contents : StartSummarize(t, c)
    \/ \E t \in Threads : AttemptSummarization(t)
    \/ \E t \in Threads, l \in SummaryLists : StartAggregate(t, l)
    \/ \E t \in Threads : AttemptAggregation(t)
    \/ \E t \in Threads : HLevel(t)
    \/ \E t \in Threads : HReturn(t)
    \/ \E t \in Threads : HBatch(t)
    \/ \E t \in Threads : HLevelDone(t)
    \/ \E t \in Threads : HNext(t)
    \/ \E t \in Threads : InvokeStart(t)
    \/ \E t \in Threads : RaiseExhausted(t)
    \/ \E t \in Threads : InvokeFailure(t)
    \/ \E t \in Threads : InvokeSuccess(t)
    \/ \E t \in Threads : RecordUsage(t)
    \/ \E t \in Threads : ReturnSuccess(t)
    \/ \E t \in Threads : Except(t)

Spec == Init /\ [][Next]_vars

-----------------------------------------------------------------------------
(* The engine over several calls, one at a time, and a usage snapshot *)

InitLedger ==
    /\ config \in [models : {c \in Chains : Len(c) <= 2}, retry_attempts : 0..1,
                   fallback_enabled : BOOLEAN]
    /\ behaviour \in Profiles(Len(config.models))
    /\ FreshEngine
    /\ th = [t \in {1} |-> IdleThread]
    /\ maxcalls = MaxCalls
    /\ orch = NoRun
    /\ fn = NoCall

NextLedger ==
    \/ Next
    \/ GetUsageStats

SpecLedger == InitLedger /\ [][NextLedger]_vars

-----------------------------------------------------------------------------
(* The engine over MaxCalls calls in sequence on one thread, on a short     *)
(* file, on two summaries that fit every budget and on eleven that fit the  *)
(* larger budget only                                                       *)

SeqContents == {MkText("src", 1, 3)}

SeqSummaryLists == {Summaries(2, 2), Summaries(11, 2)}

InitSeq ==
    /\ config \in [models : {<<OpenAI>>, <<OpenAI, OpenAI35>>,
                             <<OpenAI, Anthropic>>},
                   retry_attempts : 1..2, fallback_enabled : BOOLEAN]
    /\ behaviour \in Profiles(Len(config.models))
    /\ FreshEngine
    /\ th = [t \in {1} |-> IdleThread]
    /\ maxcalls = MaxCalls
    /\ orch = NoRun
    /\ fn = NoCall

NextSeq ==
    \/ \E t \in Threads, c \in SeqContents : StartSummarize(t, c)
    \/ \E t \in Threads : AttemptSummarization(t)
    \/ \E t \in Threads, l \in SeqSummaryLists : StartAggregate(t, l)
    \/ \E t \in Threads : AttemptAggregation(t)
    \/ \E t \in Threads : HLevel(t)
    \/ \E t \in Threads : HReturn(t)
    \/ \E t \in Threads : HBatch(t)
    \/ \E t \in Threads : HLevelDone(t)
    \/ \E t \in Threads : HNext(t)
    \/ \E t \in Threads : InvokeStart(t)
    \/ \E t \in Threads : RaiseExhausted(t)
    \/ \E t \in Threads : InvokeFailure(t)
    \/ \E t \in Threads : InvokeSuccess(t)
    \/ \E t \in Threads : RecordUsage(t)
    \/ \E t \in Threads : ReturnSuccess(t)
    \/ \E t \in Threads : Except(t)

SpecSeq == InitSeq /\ [][NextSeq]_vars

-----------------------------------------------------------------------------
(* summarize_file called from the worker threads of _process_files_parallel, *)
(* every provider answering every invoke                                     *)

InitPar ==
    /\ config \in [models : Chains, retry_attempts : 1..MaxRetry, fallback_enabled : BOOLEAN]
    /\ behaviour = [k \in 1..Len(config.models) |-> "ok"]
    /\ FreshEngine
    /\ th = [t \in 1..MaxThreads |-> IdleThread]
    /\ maxcalls \in 1..MaxThreads
    /\ orch = NoRun
    /\ fn = NoCall

NextPar ==
    \/ \E t \in Threads, c \in Contents : StartSummarize(t, c)
    \/ \E t \in Threads : AttemptSummarization(t)
    \/ \E t \in Threads : InvokeStart(t)
    \/ \E t \in Threads : InvokeSuccess(t)
    \/ \E t \in Threads : ReadTotalTokens(t)
    \/ \E t \in Threads : WriteTotalTokens(t)
    \/ \E t \in Threads : ReadTotalRequests(t)
    \/ \E t \in Threads : WriteTotalRequests(t)
    \/ \E t \in Threads : TestStatsEntry(t)
    \/ \E t \in Threads : CreateStatsEntry(t)
    \/ \E t \in Threads : ReadStatsRequests(t)
    \/ \E t \in Threads : WriteStatsRequests(t)
    \/ \E t \in Threads : ReadStatsTokens(t)
    \/ \E t \in Threads : WriteStatsTokens(t)
    \/ \E t \in Threads : ReturnSuccess(t)

SpecPar == InitPar /\ [][NextPar]_vars

-----------------------------------------------------------------------------
(* The engine with every enabled step eventually taken: a call that is      *)
(* running goes on, every invoke returns; one call on a chain of one or two *)
(* providers                                                                *)

InitLive ==
    /\ Init
    /\ Len(config.models) <= 2

LiveSpec == InitLive /\ [][Next]_vars /\ WF_vars(Next)

-----------------------------------------------------------------------------
(* CodexSummarizer (src/codex/summarizer.py): summarize_codebase scans the   *)
(* directory, has the files processed by the workers of a thread pool, their *)
(* summaries collected as they complete and then aggregated on the main      *)
(* thread (thread 0), and saves the output.  Every worker is given the one   *)
(* PluginContext ctx of the run and writes the file it works on into it;     *)
(* with the plugin system enabled it emits the hooks with it.  Taking a file *)
(* off the queue, reading it, every write of ctx, every emit and the return  *)
(* of the worker's function are steps of their own.  An emit passes the      *)
(* context object itself: while the worker has not gone on, the plugins read *)
(* what the object holds now, which for the ctx of the run is what any       *)
(* worker wrote last.  The files are of a language that has no chunker of    *)
(* its own, so a large file is cut by _chunk_generic.                        *)
(* Of self.stats the model keeps 'errors' and 'files_processed'; of ctx it   *)
(* keeps file_info, content, chunks, request and response.  The counters     *)
(* 'chunks_created' and 'fallbacks_used', ctx.state and the hooks of the     *)
(* main thread, which no step here reads, are left out.                      *)

Workers == Threads \ {0}

\* the files scan_directory returns, in scan order: path k is the k-th
FileKinds == {"regular", "empty", "unreadable", "large"}

MkFiles(kinds) == [k \in 1..Len(kinds) |-> [path |-> k, kind |-> kinds[k]]]

\* the scans of a run without plugins: no file at all, and up to MaxFiles
\* files that need no chunking
FileLists ==
    { MkFiles(kinds) : kinds \in
        { ks \in { <<>>,
                   <<"regular">>,
                   <<"regular", "regular">>,
                   <<"regular", "empty">>,
                   <<"unreadable", "regular">>,
                   <<"regular", "regular", "regular">>,
                   <<"empty", "regular", "unreadable">>,
                   <<"regular", "regular", "regular", "regular">> } :
            Len(ks) <= MaxFiles } }

\* the scans of a run with plugins
HookFileLists ==
    { MkFiles(kinds) : kinds \in
        { <<"regular", "regular">>,
          <<"large">>,
          <<"large", "regular">>,
          <<"regular", "empty">>,
          <<"empty", "unreadable">> } }

\* line j of a file: three tokens
FileLine(file, j) == [k \in 1..3 |-> <<"src", file.path, 3 * (j - 1) + k>>]

RECURSIVE JoinWith(_, _)
JoinWith(sep, texts) ==
    IF texts = <<>> THEN <<>>
    ELSE IF Len(texts) = 1 THEN texts[1]
    ELSE texts[1] \o <<sep>> \o JoinWith(sep, Tail(texts))

\* '\n'.join(lines)
JoinLines(lines) == MergeNewlines(JoinWith(WsTok, lines))

RECURSIVE SplitAtNewline(_)
SplitAtNewline(text) ==
    IF \A k \in 1..Len(text) : text[k] # WsTok THEN <<text>>
    ELSE LET k == CHOOSE j \in 1..Len(text) :
                      text[j] = WsTok /\ \A i \in 1..(j - 1) : text[i] # WsTok
         IN <<SubSeq(text, 1, k - 1)>> \o SplitAtNewline(SubSeq(text, k + 1, Len(text)))

\* content.split('\n')
SplitLines(text) == SplitAtNewline(SplitNewlines(text))

\* f.read() of a file that is opened: one line, or MaxLines lines, or nothing
FileContent(file) ==
    CASE file.kind = "regular" -> FileLine(file, 1)
      [] file.kind = "large" -> JoinLines([j \in 1..MaxLines |-> FileLine(file, j)])
      [] OTHER -> <<>>

\* "Empty file"
EmptyFile == <<<<"Empty", 0, 0>>, <<"file", 0, 0>>>>

\* "Failed to process {file_info.relative_path}: {e}"
ErrorMsg(path) == <<<<"Failed to process", path, 0>>>>

\* the summary without its 'Error:' prefix
ErrorSummaryPlain(path) == ErrorMsg(path)

\* f"Error: {error_msg}"
ErrorSummary(path) == <<ErrorTok>> \o ErrorMsg(path)

\* "No valid summaries could be generated."
NoValidSummaries == <<<<"No valid summaries could be generated.", 0, 0>>>>

\* _create_fallback_summary: "# Codebase Summary" and the files by language
FallbackSummary == <<<<"# Codebase Summary", 0, 0>>>>

\* str(ProcessingError("No suitable files found in codebase"))
NoFilesError == <<<<"No suitable files found in codebase", 0, 0>>>>

\* str(ProcessingError(f"Failed to save output: {e}"))
SaveError == <<<<"Failed to save output", 0, 0>>>>

\* a provider with a budget of two tokens
Tiny == [provider |-> "perplexity", model |-> "sonar-small-chat", max_tokens |-> 2]

\* python's seq[-n:] with n > 0
LastN(s, n) == SubSeq(s, Max(Len(s) - n + 1, 1), Len(s))

RECURSIVE SumTokens(_)
\* sum(count_tokens(l) for l in lines)
SumTokens(lines) ==
    IF lines = <<>> THEN 0 ELSE count_tokens(Head(lines)) + SumTokens(Tail(lines))

RECURSIVE ChunkLoop(_, _, _, _, _, _)
\* _chunk_generic: the loop over the lines from line i on, current_chunk and
\* the chunks made so far; then the final chunk
ChunkLoop(lines, i, current_chunk, chunks, chunk_size, overlap) ==
    IF i > Len(lines)
    THEN IF current_chunk # <<>> THEN Append(chunks, JoinLines(current_chunk)) ELSE chunks
    ELSE LET line == lines[i]
             full == /\ SumTokens(current_chunk) + count_tokens(line) > chunk_size
                     /\ current_chunk # <<>>
             overlap_lines == (Len(current_chunk) * overlap) \div chunk_size
             kept == IF overlap_lines > 0 THEN LastN(current_chunk, overlap_lines) ELSE <<>>
         IN ChunkLoop(lines, i + 1,
                      Append(IF full THEN kept ELSE current_chunk, line),
                      IF full THEN Append(chunks, JoinLines(current_chunk)) ELSE chunks,
                      chunk_size, overlap)

\* self.chunker.chunk_file(file_info, content): the contents of the chunks
chunk_generic(content) ==
    ChunkLoop(SplitLines(content), 1, <<>>, <<>>, config.chunk_size, config.chunk_overlap)

\* file_tokens > self.config.chunk_size * 4
NeedsChunking(content) == count_tokens(content) > config.chunk_size * 4

\* PluginContext(config=self.config): no file, no content, no chunks, no
\* request, no response
NewContext ==
    [file_info |-> 0, content |-> <<>>, chunks |-> <<>>, request |-> 0, response |-> 0]

\* "File summary (chunked):\n" + "\n\n".join(chunk_summaries)
ChunkedSummary(chunk_summaries) ==
    <<<<"File", 0, 0>>, <<"summary", 0, 0>>, <<"(chunked):", 0, 0>>, WsTok>>
        \o Join(chunk_summaries)

\* f"Could not summarize file {file_info.relative_path} (all chunks failed)"
AllChunksFailed(path) ==
    <<<<"Could", 0, 0>>, <<"not", 0, 0>>, <<"summarize", 0, 0>>, <<"file", 0, 0>>,
      <<"path", path, 0>>, <<"(all", 0, 0>>, <<"chunks", 0, 0>>, <<"failed)", 0, 0>>>>

\* self.plugin_manager.emit(hook, ctx) on the worker of file f: the context
\* object the plugins are passed (obj: the "ctx" of the run or the "chunk_ctx"
\* of the worker), and what it holds when on_hook is entered
Emission(hook, f, obj, ctx) ==
    [hook |-> hook, file |-> f, obj |-> obj,
     file_info |-> ctx.file_info, content |-> ctx.content, chunks |-> ctx.chunks,
     request |-> ctx.request, response |-> ctx.response]

\* if self.plugin_manager: self.plugin_manager.emit(hook, ctx), on worker t
Emit(t, hook, f, obj, ctx) ==
    IF orch.plugins THEN Emission(hook, f, obj, ctx) ELSE orch.emit[t]

\* what the plugins called by the last emit of worker t read now from the
\* context they were passed: the object is the live one
PluginReads(t) == IF orch.emit[t].obj = "ctx" THEN orch.ctx ELSE orch.chunk_ctx[t]

\* scan_directory returned: no file raises ProcessingError, else every file is
\* submitted to the pool
ScanDirectory ==
    /\ orch.pc = "scan"
    /\ orch' = IF orch.files = <<>>
               THEN [orch EXCEPT !.pc = "except", !.exc = NoFilesError]
               ELSE [orch EXCEPT !.pc = "parallel"]
    /\ UNCHANGED <<setup, fn, ledger, snap, th, ncalls>>

\* the futures of executor.submit that are queued, in submission order
Pending == {f \in 1..Len(orch.files) : orch.future[f] = "pending"}

\* a worker of the pool that is free takes the next queued file: its future
\* is running
TakeFile(t) ==
    /\ orch.pc = "parallel"
    /\ t \in Workers
    /\ orch.wpc[t] = "idle"
    /\ Pending # {}
    /\ LET f == CHOOSE x \in Pending : \A y \in Pending : x <= y
       IN orch' = [orch EXCEPT !.future[f] = "running", !.job[t] = f, !.wpc[t] = "l174"]
    /\ UNCHANGED <<setup, fn, ledger, snap, th, ncalls>>

\* _process_single_file: the file is opened and read; open() raises, and the
\* future with it, or the file is empty and "Empty file" is returned, or the
\* worker goes on with the content
ReadFile(t) ==
    /\ orch.pc = "parallel"
    /\ orch.wpc[t] = "l174"
    /\ LET f == orch.job[t]
           file == orch.files[f]
           content == FileContent(file)
       IN orch' =
            CASE file.kind = "unreadable" ->
                    [orch EXCEPT !.future[f] = "raised", !.job[t] = 0, !.wpc[t] = "idle"]
              [] file.kind # "unreadable" /\ Strip(content) = <<>> ->
                    [orch EXCEPT !.future[f] = "done", !.result[f] = EmptyFile,
                                 !.job[t] = 0, !.wpc[t] = "idle"]
              [] OTHER -> [orch EXCEPT !.wpc[t] = "l182"]
    /\ UNCHANGED <<setup, fn, ledger, snap, th, ncalls>>

\* ctx.file_info = file_info
SetContextFileInfo(t) ==
    /\ orch.pc = "parallel"
    /\ orch.wpc[t] = "l182"
    /\ orch' = [orch EXCEPT !.ctx.file_info = orch.job[t], !.wpc[t] = "l183"]
    /\ UNCHANGED <<setup, fn, ledger, snap, th, ncalls>>

\* ctx.content = content, and the test for a file that needs chunking
SetContextContent(t) ==
    /\ orch.pc = "parallel"
    /\ orch.wpc[t] = "l183"
    /\ LET content == FileContent(orch.files[orch.job[t]])
       IN orch' = [orch EXCEPT !.ctx.content = content,
                               !.wpc[t] = IF NeedsChunking(content) THEN "l232" ELSE "l200"]
    /\ UNCHANGED <<setup, fn, ledger, snap, th, ncalls>>

\* _process_regular_file: emit(BEFORE_AI_REQUEST, ctx) if there are plugins
EmitBeforeAIRequest(t) ==
    /\ orch.pc = "parallel"
    /\ orch.wpc[t] = "l200"
    /\ orch' = [orch EXCEPT !.emit[t] =
                                Emit(t, "BEFORE_AI_REQUEST", orch.job[t], "ctx", orch.ctx),
                            !.wpc[t] = "l210"]
    /\ UNCHANGED <<setup, fn, ledger, snap, th, ncalls>>

\* ctx.request = request, and summarize_file(request) is called
SetContextRequest(t) ==
    /\ orch.pc = "parallel"
    /\ orch.wpc[t] = "l210"
    /\ orch' = [orch EXCEPT !.ctx.request = orch.job[t], !.wpc[t] = "l211"]
    /\ th' = [th EXCEPT ![t] = NewCall("summarize", FileContent(orch.files[orch.job[t]]), <<>>)]
    /\ ncalls' = ncalls + 1
    /\ UNCHANGED <<setup, fn, ledger, snap>>

\* summarize_file returned: ctx.response = response
SetContextResponse(t) ==
    /\ orch.pc = "parallel"
    /\ orch.wpc[t] = "l211"
    /\ th[t].pc = "done"
    /\ orch' = [orch EXCEPT !.ctx.response = orch.job[t], !.wpc[t] = "l216"]
    /\ UNCHANGED <<setup, fn, ledger, snap, th, ncalls>>

\* emit(AFTER_AI_RESPONSE, ctx) if there are plugins
EmitAfterAIResponse(t) ==
    /\ orch.pc = "parallel"
    /\ orch.wpc[t] = "l216"
    /\ orch' = [orch EXCEPT !.emit[t] =
                                Emit(t, "AFTER_AI_RESPONSE", orch.job[t], "ctx", orch.ctx),
                            !.wpc[t] = "l219"]
    /\ UNCHANGED <<setup, fn, ledger, snap, th, ncalls>>

\* the end of _process_regular_file: the error response is raised as
\* ProcessingError, and the future with it, or the summary is returned
ProcessRegularFileReturn(t) ==
    /\ orch.pc = "parallel"
    /\ orch.wpc[t] = "l219"
    /\ LET f == orch.job[t]
           response == th[t].ret[1]
           o == [orch EXCEPT !.wpc[t] = "idle", !.job[t] = 0]
       IN orch' = IF response.error # NoError
                  THEN [o EXCEPT !.future[f] = "raised"]
                  ELSE [o EXCEPT !.future[f] = "done", !.result[f] = response.summary,
                                 !.succeeded = @ \cup {f}]
    /\ UNCHANGED <<setup, fn, ledger, snap, th, ncalls>>

\* _process_large_file: emit(BEFORE_CHUNK, ctx) if there are plugins
EmitBeforeChunk(t) ==
    /\ orch.pc = "parallel"
    /\ orch.wpc[t] = "l232"
    /\ orch' = [orch EXCEPT !.emit[t] = Emit(t, "BEFORE_CHUNK", orch.job[t], "ctx", orch.ctx),
                            !.wpc[t] = "l235"]
    /\ UNCHANGED <<setup, fn, ledger, snap, th, ncalls>>

\* chunks = self.chunker.chunk_file(file_info, content); ctx.chunks = chunks
ChunkFile(t) ==
    /\ orch.pc = "parallel"
    /\ orch.wpc[t] = "l235"
    /\ LET chunks == chunk_generic(FileContent(orch.files[orch.job[t]]))
       IN orch' = [orch EXCEPT !.chunks[t] = chunks, !.ctx.chunks = chunks,
                               !.wpc[t] = "l241"]
    /\ UNCHANGED <<setup, fn, ledger, snap, th, ncalls>>

\* emit(AFTER_CHUNK, ctx) if there are plugins; chunk_summaries = []
EmitAfterChunk(t) ==
    /\ orch.pc = "parallel"
    /\ orch.wpc[t] = "l241"
    /\ orch' = [orch EXCEPT !.emit[t] = Emit(t, "AFTER_CHUNK", orch.job[t], "ctx", orch.ctx),
                            !.wpc[t] = "l245", !.ci[t] = 0, !.chunk_summaries[t] = <<>>]
    /\ UNCHANGED <<setup, fn, ledger, snap, th, ncalls>>

\* for chunk in chunks: a context of its own for the chunk, with the file,
\* the content of the chunk, the chunk and the request
ChunkContext(t) ==
    /\ orch.pc = "parallel"
    /\ orch.wpc[t] = "l245"
    /\ orch.ci[t] < Len(orch.chunks[t])
    /\ LET f == orch.job[t]
           chunk == orch.chunks[t][orch.ci[t] + 1]
       IN orch' = [orch EXCEPT !.chunk_ctx[t] =
                                   [file_info |-> f, content |-> chunk, chunks |-> <<chunk>>,
                                    request |-> f, response |-> 0],
                               !.wpc[t] = "l267"]
    /\ UNCHANGED <<setup, fn, ledger, snap, th, ncalls>>

\* emit(BEFORE_AI_REQUEST, chunk_ctx) if there are plugins
EmitChunkBeforeAIRequest(t) ==
    /\ orch.pc = "parallel"
    /\ orch.wpc[t] = "l267"
    /\ orch' = [orch EXCEPT !.emit[t] = Emit(t, "BEFORE_AI_REQUEST", orch.job[t],
                                             "chunk_ctx", orch.chunk_ctx[t]),
                            !.wpc[t] = "l269"]
    /\ UNCHANGED <<setup, fn, ledger, snap, th, ncalls>>

\* summarize_file(request) is called for the chunk
ChunkRequest(t) ==
    /\ orch.pc = "parallel"
    /\ orch.wpc[t] = "l269"
    /\ orch' = [orch EXCEPT !.wpc[t] = "l270"]
    /\ th' = [th EXCEPT ![t] = NewCall("summarize", orch.chunks[t][orch.ci[t] + 1], <<>>)]
    /\ ncalls' = ncalls + 1
    /\ UNCHANGED <<setup, fn, ledger, snap>>

\* summarize_file returned for the chunk: chunk_ctx.response = response
ChunkResponse(t) ==
    /\ orch.pc = "parallel"
    /\ orch.wpc[t] = "l270"
    /\ th[t].pc = "done"
    /\ orch' = [orch EXCEPT !.chunk_ctx[t].response = orch.job[t], !.wpc[t] = "l274"]
    /\ UNCHANGED <<setup, fn, ledger, snap, th, ncalls>>

\* emit(AFTER_AI_RESPONSE, chunk_ctx) if there are plugins
EmitChunkAfterAIResponse(t) ==
    /\ orch.pc = "parallel"
    /\ orch.wpc[t] = "l274"
    /\ orch' = [orch EXCEPT !.emit[t] = Emit(t, "AFTER_AI_RESPONSE", orch.job[t],
                                             "chunk_ctx", orch.chunk_ctx[t]),
                            !.wpc[t] = "l280"]
    /\ UNCHANGED <<setup, fn, ledger, snap, th, ncalls>>

\* if not response.error: chunk_summaries.append(response.summary), and the
\* loop goes to the next chunk
ChunkSummary(t) ==
    /\ orch.pc = "parallel"
    /\ orch.wpc[t] = "l280"
    /\ LET response == th[t].ret[1]
           o == [orch EXCEPT !.wpc[t] = "l245", !.ci[t] = @ + 1]
       IN orch' = IF response.error = NoError
                  THEN [o EXCEPT !.chunk_summaries[t] = Append(@, response.summary),
                                 !.succeeded = @ \cup {orch.job[t]}]
                  ELSE o
    /\ UNCHANGED <<setup, fn, ledger, snap, th, ncalls>>

\* the chunks are done: the summary of the file is made of theirs
LargeFileReturn(t) ==
    /\ orch.pc = "parallel"
    /\ orch.wpc[t] = "l245"
    /\ ~(orch.ci[t] < Len(orch.chunks[t]))
    /\ LET f == orch.job[t]
           combined_summary ==
               IF orch.chunk_summaries[t] # <<>>
               THEN ChunkedSummary(orch.chunk_summaries[t])
               ELSE AllChunksFailed(orch.files[f].path)
       IN orch' = [orch EXCEPT !.future[f] = "done", !.result[f] = combined_summary,
                               !.wpc[t] = "idle", !.job[t] = 0,
                               !.chunk_summaries[t] = <<>>, !.ci[t] = 0, !.chunks[t] = <<>>,
                               !.chunk_ctx[t] = NewContext]
    /\ UNCHANGED <<setup, fn, ledger, snap, th, ncalls>>

\* for future in as_completed(future_to_file): a finished future is yielded and
\* its result, or its error, stored under the path of its file
Collect(f) ==
    /\ orch.pc = "parallel"
    /\ orch.future[f] \in {"done", "raised"}
    /\ LET path == orch.files[f].path
       IN orch' =
            IF orch.future[f] = "done"
            THEN [orch EXCEPT !.future[f] = "yielded",
                              !.file_summaries =
                                  Append(@, [path |-> path, summary |-> orch.result[f]]),
                              !.files_processed = @ + 1]
            ELSE [orch EXCEPT !.future[f] = "yielded",
                              !.errors = Append(@, ErrorMsg(path)),
                              !.file_summaries =
                                  Append(@, [path |-> path, summary |-> ErrorSummary(path)])]
    /\ UNCHANGED <<setup, fn, ledger, snap, th, ncalls>>

\* every future was yielded: _process_files_parallel returns file_summaries
ParallelReturn ==
    /\ orch.pc = "parallel"
    /\ \A f \in 1..Len(orch.files) : orch.future[f] = "yielded"
    /\ orch' = [orch EXCEPT !.pc = "master"]
    /\ UNCHANGED <<setup, fn, ledger, snap, th, ncalls>>

\* not summary.startswith("Error:")
IsValidEntry(entry) == ~StartsWithError(entry.summary)

\* _create_master_summary: the summaries that are no errors, in the order of
\* file_summaries.values(), go to aggregate_summaries
CreateMasterSummary ==
    /\ orch.pc = "master"
    /\ LET valid == SelectSeq(orch.file_summaries, IsValidEntry)
           valid_summaries == [k \in 1..Len(valid) |-> valid[k].summary]
       IN IF valid_summaries = <<>>
          THEN /\ orch' = [orch EXCEPT !.pc = "finished", !.master = NoValidSummaries]
               /\ UNCHANGED <<th, ncalls>>
          ELSE /\ orch' = [orch EXCEPT !.pc = "aggregating",
                                       !.valid_paths = [k \in 1..Len(valid) |-> valid[k].path]]
               /\ th' = [th EXCEPT ![0] = NewCall("aggregate", <<>>, valid_summaries)]
               /\ ncalls' = ncalls + 1
    /\ UNCHANGED <<setup, fn, ledger, snap>>

\* _create_master_summary after aggregate_summaries returned
MasterReturn ==
    /\ orch.pc = "aggregating"
    /\ th[0].pc = "done"
    /\ LET response == th[0].ret[1]
       IN orch' = [orch EXCEPT !.pc = "finished",
                               !.master = IF response.error # NoError
                                          THEN FallbackSummary ELSE response.summary]
    /\ UNCHANGED <<setup, fn, ledger, snap, th, ncalls>>

\* _format_output and _save_output: the output is written and the results are
\* returned, or writing it raises ProcessingError
SaveOutput ==
    /\ orch.pc = "finished"
    /\ \E written \in BOOLEAN :
          orch' = IF written THEN [orch EXCEPT !.pc = "returned"]
                  ELSE [orch EXCEPT !.pc = "except", !.exc = SaveError]
    /\ UNCHANGED <<setup, fn, ledger, snap, th, ncalls>>

\* except Exception as e: self.stats['errors'].append(str(e)), and
\* ProcessingError is raised
ExceptRun ==
    /\ orch.pc = "except"
    /\ orch' = [orch EXCEPT !.pc = "raised", !.errors = Append(@, orch.exc)]
    /\ UNCHANGED <<setup, fn, ledger, snap, th, ncalls>>

\* how the providers answer in a run: as before, or an invoke never returns
RunProfiles(n) == [1..n -> Behaviours \cup {"hang"}]

\* CodexSummarizer.__init__ and the start of summarize_codebase on a
\* directory that holds files
NewRun(files, max_workers, plugins) ==
    [pc |-> "scan", plugins |-> plugins, files |-> files,
     future |-> [f \in 1..Len(files) |-> "pending"],
     result |-> [f \in 1..Len(files) |-> <<>>],
     job |-> [t \in 1..max_workers |-> 0],
     file_summaries |-> <<>>, errors |-> <<>>, files_processed |-> 0,
     valid_paths |-> <<>>, master |-> <<>>, exc |-> <<>>,
     ctx |-> NewContext,
     wpc |-> [t \in 1..max_workers |-> "idle"],
     ci |-> [t \in 1..max_workers |-> 0],
     chunks |-> [t \in 1..max_workers |-> <<>>],
     chunk_ctx |-> [t \in 1..max_workers |-> NewContext],
     chunk_summaries |-> [t \in 1..max_workers |-> <<>>],
     \* the last emit of each worker, and the files that had a summarize_file
     \* call return without error
     emit |-> [t \in 1..max_workers |-> <<>>],
     succeeded |-> {}]

\* summarize_codebase with the plugin system disabled
InitRun ==
    /\ config \in [models : {<<OpenAI>>, <<Tiny>>, <<OpenAI, Anthropic>>},
                   retry_attempts : 0..1, fallback_enabled : BOOLEAN,
                   chunk_size : {1}, chunk_overlap : {1}]
    /\ behaviour \in RunProfiles(Len(config.models))
    /\ FreshEngine
    /\ \E files \in FileLists, max_workers \in 1..MaxWorkers :
          /\ th = [t \in 0..max_workers |-> IdleThread]
          /\ maxcalls = Len(files) + 1
          /\ orch = NewRun(files, max_workers, FALSE)
    /\ fn = NoCall

NextRun ==
    \/ ScanDirectory
    \/ \E t \in Threads : TakeFile(t)
    \/ \E t \in Workers : ReadFile(t)
    \/ \E t \in Workers : SetContextFileInfo(t)
    \/ \E t \in Workers : SetContextContent(t)
    \/ \E t \in Workers : EmitBeforeAIRequest(t)
    \/ \E t \in Workers : SetContextRequest(t)
    \/ \E t \in Workers : SetContextResponse(t)
    \/ \E t \in Workers : EmitAfterAIResponse(t)
    \/ \E t \in Workers : ProcessRegularFileReturn(t)
    \/ \E f \in 1..Len(orch.files) : Collect(f)
    \/ ParallelReturn
    \/ CreateMasterSummary
    \/ MasterReturn
    \/ SaveOutput
    \/ ExceptRun
    \/ \E t \in Threads : AttemptSummarization(t)
    \/ \E t \in Threads : AttemptAggregation(t)
    \/ \E t \in Threads : HLevel(t)
    \/ \E t \in Threads : HReturn(t)
    \/ \E t \in Threads : HBatch(t)
    \/ \E t \in Threads : HLevelDone(t)
    \/ \E t \in Threads : HNext(t)
    \/ \E t \in Threads : InvokeStart(t)
    \/ \E t \in Threads : RaiseExhausted(t)
    \/ \E t \in Threads : InvokeFailure(t)
    \/ \E t \in Threads : InvokeSuccess(t)
    \/ \E t \in Threads : RecordUsage(t)
    \/ \E t \in Threads : ReturnSuccess(t)
    \/ \E t \in Threads : Except(t)

SpecRun == InitRun /\ [][NextRun]_vars

\* the run with every enabled step eventually taken
LiveRun == SpecRun /\ WF_vars(NextRun)

-----------------------------------------------------------------------------
(* CodexSummarizer with the plugin system enabled, on files some of which    *)
(* are large enough to be chunked, each chunk summarised by a                *)
(* summarize_file call of its own                                            *)

InitHooks ==
    /\ config \in [models : {<<OpenAI>>, <<Tiny>>}, retry_attempts : {1},
                   fallback_enabled : {TRUE},
                   chunk_size : {1}, chunk_overlap : 0..1]
    /\ behaviour \in Profiles(Len(config.models))
    /\ FreshEngine
    /\ \E files \in HookFileLists, max_workers \in 1..MaxWorkers :
          /\ th = [t \in 0..max_workers |-> IdleThread]
          /\ maxcalls = MaxLines * Len(files) + 1
          /\ orch = NewRun(files, max_workers, TRUE)
    /\ fn = NoCall

NextHooks ==
    \/ ScanDirectory
    \/ \E t \in Threads : TakeFile(t)
    \/ \E t \in Workers : ReadFile(t)
    \/ \E t \in Workers : SetContextFileInfo(t)
    \/ \E t \in Workers : SetContextContent(t)
    \/ \E t \in Workers : EmitBeforeAIRequest(t)
    \/ \E t \in Workers : SetContextRequest(t)
    \/ \E t \in Workers : SetContextResponse(t)
    \/ \E t \in Workers : EmitAfterAIResponse(t)
    \/ \E t \in Workers : ProcessRegularFileReturn(t)
    \/ \E t \in Workers : EmitBeforeChunk(t)
    \/ \E t \in Workers : ChunkFile(t)
    \/ \E t \in Workers : EmitAfterChunk(t)
    \/ \E t \in Workers : ChunkContext(t)
    \/ \E t \in Workers : EmitChunkBeforeAIRequest(t)
    \/ \E t \in Workers : ChunkRequest(t)
    \/ \E t \in Workers : ChunkResponse(t)
    \/ \E t \in Workers : EmitChunkAfterAIResponse(t)
    \/ \E t \in Workers : ChunkSummary(t)
    \/ \E t \in Workers : LargeFileReturn(t)
    \/ \E f \in 1..Len(orch.files) : Collect(f)
    \/ ParallelReturn
    \/ CreateMasterSummary
    \/ MasterReturn
    \/ SaveOutput
    \/ ExceptRun
    \/ \E t \in Threads : AttemptSummarization(t)
    \/ \E t \in Threads : AttemptAggregation(t)
    \/ \E t \in Threads : HLevel(t)
    \/ \E t \in Threads : HReturn(t)
    \/ \E t \in Threads : HBatch(t)
    \/ \E t \in Threads : HLevelDone(t)
    \/ \E t \in Threads : HNext(t)
    \/ \E t \in Threads : InvokeStart(t)
    \/ \E t \in Threads : RaiseExhausted(t)
    \/ \E t \in Threads : InvokeFailure(t)
    \/ \E t \in Threads : InvokeSuccess(t)
    \/ \E t \in Threads : RecordUsage(t)
    \/ \E t \in Threads : ReturnSuccess(t)
    \/ \E t \in Threads : Except(t)

SpecHooks == InitHooks /\ [][NextHooks]_vars

-----------------------------------------------------------------------------
(* truncate_text (src/utils.py) called on its own, and again on its result  *)

\* an engine that is not called
EngineAtRest ==
    /\ config = [models |-> <<OpenAI>>, retry_attempts |-> 1, fallback_enabled |-> TRUE]
    /\ behaviour = <<"ok">>
    /\ FreshEngine
    /\ th = [t \in {1} |-> IdleThread]
    /\ maxcalls = 0
    /\ orch = NoRun

InitTruncate ==
    /\ EngineAtRest
    /\ \E n \in 0..MaxLen, max_tokens \in 0..MaxBudget :
          fn = [op |-> "truncate_text", text |-> MkText("src", 1, n),
                max_tokens |-> max_tokens, out |-> <<>>]

\* out.append(truncate_text(text, max_tokens)), with text the last result if
\* there is one
TruncateText ==
    /\ fn.op = "truncate_text"
    /\ Len(fn.out) < 2
    /\ LET text == IF fn.out = <<>> THEN fn.text ELSE fn.out[Len(fn.out)]
       IN fn' = [fn EXCEPT !.out = Append(@, truncate_text(text, fn.max_tokens))]
    /\ UNCHANGED <<setup, orch, ledger, snap, th, ncalls>>

NextTruncate == TruncateText

SpecTruncate == InitTruncate /\ [][NextTruncate]_vars

-----------------------------------------------------------------------------
(* AIInterface._initialize_providers called on a list of model configs      *)

\* provider_classes: the provider names that have an adapter class
provider_classes == {"perplexity", "openai", "anthropic"}

\* a model config, and whether the constructor of its adapter returns
\* (it raises when the client library is missing or the client rejects it)
ModelEntries ==
    [provider : provider_classes \cup {"unknown"}, constructs : BOOLEAN]

\* the model configs of a list, named by their position
MkModels(entries) ==
    [k \in 1..Len(entries) |->
        [provider |-> entries[k].provider, model |-> k, constructs |-> entries[k].constructs]]

ModelLists ==
    UNION { {MkModels(es) : es \in [1..n -> ModelEntries]} : n \in 0..MaxModels }

\* every entry is kept
SkippedNever(model_config) == model_config.provider = "none"

\* provider_class is None, or provider_class(model_config) raised: continue
Skipped(model_config) ==
    \/ model_config.provider \notin provider_classes
    \/ ~model_config.constructs

RECURSIVE AppendProviders(_, _)
\* for model_config in self.config.models: providers.append(provider), or continue
AppendProviders(chain, models) ==
    IF models = <<>> THEN chain
    ELSE AppendProviders(IF Skipped(Head(models)) THEN chain ELSE Append(chain, Head(models)),
                         Tail(models))

\* _initialize_providers: the chain, or AIInterfaceError when it is empty
initialize_providers(models) ==
    LET chain == AppendProviders(<<>>, models)
    IN [raised |-> chain = <<>>, providers |-> chain]

InitProviders ==
    /\ EngineAtRest
    /\ \E models \in ModelLists :
          fn = [op |-> "_initialize_providers", models |-> models, out |-> <<>>]

InitializeProviders ==
    /\ fn.op = "_initialize_providers"
    /\ fn.out = <<>>
    /\ fn' = [fn EXCEPT !.out = <<initialize_providers(fn.models)>>]
    /\ UNCHANGED <<setup, orch, ledger, snap, th, ncalls>>

NextProviders == InitializeProviders

SpecProviders == InitProviders /\ [][NextProviders]_vars

-----------------------------------------------------------------------------
(* Properties *)

Done(t) == th[t].pc = "done"

Response(t) == th[t].ret[1]

N == Len(providers)

\* no invoke of the call has answered
NoInvokeAnswered(t) == \A k \in 1..N : th[t].fails[k] = th[t].inv[k]

\* C1: within one call the providers are invoked in chain order, one at a time:
\* the first invoke is provider 0's, an invoke of the same provider follows
\* only while its retry loop has tries left, an invoke of another provider is
\* the next one's and follows retry_attempts failed tries in a row of the one
\* before, and no invoke starts while another is in flight.
C1_ChainOrder ==
    [][\A t \in Threads :
         (th[t].pc = "retry" /\ th'[t].pc = "invoke") =>
            /\ th[t].inflight = 0
            /\ th'[t].inflight = 1
            /\ th[t].last = 0 => th'[t].last = 1
            /\ th'[t].last >= th[t].last
            /\ (th[t].last # 0 /\ th'[t].last = th[t].last) =>
                   th[t].run < config.retry_attempts
            /\ (th[t].last # 0 /\ th'[t].last # th[t].last) =>
                   /\ th'[t].last = th[t].last + 1
                   /\ th[t].run = config.retry_attempts
                   /\ th[t].fails[th[t].last] >= config.retry_attempts
                   /\ \A k \in 1..N : k > th[t].last => th[t].inv[k] = 0]_vars

\* the third provider of the chain is being invoked in an aggregation that
\* went through batches on an earlier provider
C1_Witness ==
    \E t \in Threads :
        /\ th[t].pc = "invoke" /\ th[t].i = 3 /\ th[t].kind = "aggregate"
        /\ total_requests > 0

\* C2: with fallback enabled, a chain of two or more, provider 0 always
\* failing and provider 1 always answering, summarize_file returns provider
\* 1's response with fallback_used set, and provider 0 has an error counted.
C2_FallbackOrder ==
    \A t \in Threads :
        (/\ Done(t) /\ th[t].kind = "summarize"
         /\ N >= 2 /\ config.fallback_enabled
         /\ behaviour[1] = "fail" /\ behaviour[2] = "ok") =>
            /\ Response(t).fallback_used
            /\ Response(t).provider_used = providers[2].provider
            /\ StatsOf(providers[1].provider).errors >= 1

\* C3 as stated: whenever the providers tried (one at least was invoked) all
\* fail, summarize_file returns an error response with provider_used and
\* model_used "none".
C3_ExhaustionNone ==
    \A t \in Threads :
        (/\ Done(t) /\ th[t].kind = "summarize"
         /\ th[t].inv[1] >= 1 /\ NoInvokeAnswered(t)) =>
            /\ Len(th[t].ret) = 1
            /\ Response(t).error # NoError
            /\ Response(t).provider_used = "none"
            /\ Response(t).model_used = "none"

\* C3 amended: whenever no provider tried answers, summarize_file returns one
\* error response; provider_used and model_used are "none" when the last
\* provider of the chain was tried (fallback enabled, or a chain of one) and
\* provider 0's names when fallback is disabled and the chain is longer.
C3_Exhaustion ==
    \A t \in Threads :
        (Done(t) /\ th[t].kind = "summarize" /\ NoInvokeAnswered(t)) =>
            /\ Len(th[t].ret) = 1
            /\ Response(t).error # NoError
            /\ StartsWithError(Response(t).summary)
            /\ IF config.fallback_enabled \/ N = 1
               THEN /\ Response(t).provider_used = "none"
                    /\ Response(t).model_used = "none"
               ELSE /\ Response(t).provider_used = providers[1].provider
                    /\ Response(t).model_used = providers[1].model

\* every provider of a chain of three was tried and failed
C3_Witness ==
    \E t \in Threads :
        /\ Done(t) /\ th[t].kind = "summarize" /\ NoInvokeAnswered(t)
        /\ N = 3 /\ th[t].i = 3 /\ th[t].inv[3] > 0
        /\ Response(t).provider_used = "none"

\* C4: a call of summarize_file or aggregate_summaries has no response while
\* it runs and exactly one when it is over, it is never stuck before that, and
\* when the request of the last provider tried raised, the response carries
\* the error and an 'Error:' summary (as every response with an error does).
C4_NeverRaises ==
    \A t \in Threads :
        /\ Len(th[t].ret) = (IF Done(t) THEN 1 ELSE 0)
        /\ th[t].pc \notin {"idle", "done"} => ENABLED Next
        /\ Done(t) =>
              /\ th[t].exc = th[t].i =>
                    /\ Response(t).error # NoError
                    /\ StartsWithError(Response(t).summary)
              /\ Response(t).error # NoError =>
                    /\ th[t].exc = th[t].i
                    /\ StartsWithError(Response(t).summary)

\* an aggregation that reduced batches and then failed on the last provider
C4_Witness ==
    \E t \in Threads :
        /\ Done(t) /\ th[t].kind = "aggregate" /\ total_requests > 0
        /\ Response(t).error # NoError /\ Response(t).provider_used = "none"

\* with fallback enabled, the first provider of the chain that always answers,
\* those before it always failing (0: there is none)
FirstOk ==
    IF \E j \in 1..N : behaviour[j] = "ok" /\ \A k \in 1..(j - 1) : behaviour[k] = "fail"
    THEN CHOOSE j \in 1..N : behaviour[j] = "ok" /\ \A k \in 1..(j - 1) : behaviour[k] = "fail"
    ELSE 0

\* C5: with fallback enabled, when providers 0..j-1 always fail and provider j
\* always answers, summarize_file returns j's response without error, with
\* fallback_used = (j > 0) and no later provider invoked; and a response with
\* an error means that every provider of the chain was tried and none answered.
C5_LowestSucceeds ==
    \A t \in Threads :
        (Done(t) /\ th[t].kind = "summarize" /\ config.fallback_enabled) =>
            /\ FirstOk # 0 =>
                  /\ Response(t).error = NoError
                  /\ Response(t).provider_used = providers[FirstOk].provider
                  /\ Response(t).fallback_used = (FirstOk > 1)
                  /\ \A k \in 1..N : k > FirstOk => th[t].inv[k] = 0
            /\ Response(t).error # NoError =>
                  /\ th[t].i = N
                  /\ NoInvokeAnswered(t)

\* C6: when provider 0 fails k times in a row and then answers, a
\* summarize_file call on a new engine returns its response without fallback
\* and without invoking another provider, and the ledger holds k errors and
\* one request for it.
C6_RetryWithinProvider ==
    \A t \in Threads :
        (/\ Done(t) /\ th[t].kind = "summarize" /\ ncalls = 1
         /\ th[t].inv[1] = th[t].fails[1] + 1) =>
            /\ th[t].fails[1] < config.retry_attempts
            /\ Response(t).error = NoError
            /\ Response(t).provider_used = providers[1].provider
            /\ ~Response(t).fallback_used
            /\ \A k \in 2..N : th[t].inv[k] = 0
            /\ StatsOf(providers[1].provider).errors = th[t].fails[1]
            /\ StatsOf(providers[1].provider).requests = 1
            /\ total_requests = 1

\* provider 0 failed its first try and answered the last one it had,
\* retry_attempts = MaxRetry, with another provider behind it never invoked
C6_Witness ==
    \E t \in Threads :
        /\ Done(t) /\ th[t].kind = "summarize"
        /\ th[t].fails[1] = MaxRetry - 1 /\ th[t].inv[1] = MaxRetry
        /\ config.retry_attempts = MaxRetry
        /\ N >= 2 /\ th[t].inv[2] = 0

\* C7: when the parallel summarize_file calls, each answered at its first
\* invoke, have all returned, total_requests equals the number of calls.
C7_LedgerExact ==
    (ncalls = maxcalls /\ \A t \in Threads : Quiet(t)) => total_requests = ncalls

\* what the snapshot shows for a provider: the dict its copy of provider_stats
\* refers to
SnapStats(p) == heap[snap[1].provider_stats[p]]

\* C8: once get_usage_stats has returned a snapshot, later calls leave every
\* value in it unchanged, the per-provider counters in its provider_stats
\* included.
C8_SnapshotIsCopy ==
    [][(snap # <<>> /\ snap' = snap) =>
          \A p \in ProviderNames :
              snap[1].provider_stats[p] # 0 =>
                  heap'[snap[1].provider_stats[p]] = SnapStats(p)]_vars

\* C9: aggregate_summaries on an empty list invokes no provider, leaves the
\* ledger of the new engine as it is, and returns "No content to summarize"
\* without error.
C9_EmptyInputSentinel ==
    \A t \in Threads :
        (th[t].kind = "aggregate" /\ th[t].summaries = <<>>) =>
            /\ \A k \in 1..N : th[t].inv[k] = 0
            /\ total_requests = 0 /\ total_tokens_used = 0 /\ heap = <<>>
            /\ Done(t) =>
                  /\ Response(t).summary = NoContent
                  /\ Response(t).error = NoError

\* C10: in the hierarchical path every level turns a list of L > 1 summaries
\* into one of ceil(L/10), which is shorter and not empty, and the reduction
\* returns when exactly one summary is left; and every aggregate_summaries call
\* ends with exactly one response, whatever the invokes answer.
C10_ReductionTerminates ==
    /\ [][\A t \in Threads :
            /\ (th[t].pc = "hfor" /\ th'[t].pc = "hwhile") =>
                  /\ Len(th[t].cur) > 1
                  /\ Len(th'[t].cur) = (Len(th[t].cur) + 9) \div 10
                  /\ Len(th'[t].cur) < Len(th[t].cur)
                  /\ Len(th'[t].cur) >= 1
            /\ (th[t].pc = "hwhile" /\ th'[t].pc = "done") =>
                  /\ Len(th[t].cur) = 1
                  /\ Len(th'[t].ret) = 1]_vars
    /\ \A t \in {1} :
          (th[t].kind = "aggregate" /\ th[t].pc = "for")
              ~> (th[t].pc = "done" /\ Len(th[t].ret) = 1)

\* eleven summaries were reduced to two and these to one, on the second
\* provider of the chain
C10_Witness ==
    \E t \in Threads :
        /\ Done(t) /\ th[t].kind = "aggregate" /\ th[t].path = "hier"
        /\ Len(th[t].summaries) = 11 /\ th[t].lvl = 2 /\ th[t].i = 2
        /\ Response(t).error = NoError

\* ceil(L / 10)
Batches(L) == (L + 9) \div 10

RECURSIVE LevelLen(_, _)
\* the length of the working list at level k of a reduction of L summaries
LevelLen(L, k) == IF k = 0 THEN L ELSE Batches(LevelLen(L, k - 1))

RECURSIVE RequestsBefore(_, _)
\* the requests of the levels before level k
RequestsBefore(L, k) ==
    IF k = 0 THEN 0 ELSE RequestsBefore(L, k - 1) + Batches(LevelLen(L, k - 1))

RECURSIVE HierCalls(_)
\* the requests of a whole reduction of L summaries
HierCalls(L) == IF L <= 1 THEN 0 ELSE Batches(L) + HierCalls(Batches(L))

\* the call aggregates L > 1 summaries whose concatenation is over the budget
\* of provider 0, and no invoke of it has failed
OverBudgetFirstTry(t) ==
    /\ th[t].kind = "aggregate" /\ Len(th[t].summaries) > 1
    /\ count_tokens(Join(th[t].summaries)) > MaxContentTokens(providers[1])
    /\ \A k \in 1..N : th[t].fails[k] = 0

\* C11: when L > 1 summaries are over the budget and every request succeeds
\* at its first try, level k of the reduction works on a list of L_k summaries
\* (L_0 = L, L_k+1 = ceil(L_k / 10)) and issues ceil(L_k / 10) requests, the
\* call ends when one summary is left, and total_requests of the new engine
\* and the invokes of provider 0 are the sum of these: 4 for 25 summaries, in
\* two levels.
C11_HierarchicalCallCount ==
    \A t \in Threads :
        (OverBudgetFirstTry(t) /\ config.retry_attempts >= 1 /\ ncalls = 1) =>
            LET L == Len(th[t].summaries) IN
            /\ th[t].pc \in {"hwhile", "hfor"} =>
                  /\ Len(th[t].cur) = LevelLen(L, th[t].lvl)
                  /\ th[t].pc = "hfor" =>
                        /\ Len(th[t].next_level) = Batches(th[t].bi)
                        /\ total_requests =
                               RequestsBefore(L, th[t].lvl) + Batches(th[t].bi)
                  /\ th[t].pc = "hwhile" =>
                        total_requests = RequestsBefore(L, th[t].lvl)
            /\ Done(t) =>
                  /\ Response(t).error = NoError
                  /\ Len(th[t].cur) = 1
                  /\ total_requests = HierCalls(L)
                  /\ th[t].inv[1] = HierCalls(L)
                  /\ L = 25 => (total_requests = 4 /\ th[t].lvl = 2)

\* twenty-five summaries were reduced by provider 0 in 3 + 1 requests
C11_Witness ==
    \E t \in Threads :
        /\ Done(t) /\ OverBudgetFirstTry(t) /\ Len(th[t].summaries) = 25
        /\ total_requests = 4 /\ th[t].i = 1

\* the output of the batch that starts at offset b of level lvl, stripped
BatchOutput(lvl, b) == Strip(Respond(lvl, b))

\* C12: at every level the batches are the index ranges [10j, 10j+10) of the
\* current list taken in increasing j, the request of a batch is made from its
\* members joined in index order, the output of a batch is appended to the
\* next level's list, and the list of the next level holds the outputs of the
\* batches in batch order.
C12_OrderPreserved ==
    [][\A t \in Threads :
         /\ (th[t].pc = "hfor" /\ th'[t].pc = "retry") =>
               LET b == th[t].bi
                   members == SubSeq(th[t].cur, b + 1, Min(b + 10, Len(th[t].cur)))
               IN /\ b = 10 * Len(th[t].next_level)
                  /\ b < Len(th[t].cur)
                  /\ th'[t].input = Join(members)
                  /\ th'[t].prompt = truncate_text(Join(members),
                                                   MaxContentTokens(providers[th[t].i]))
                  /\ th'[t].cur = th[t].cur
         /\ (th[t].pc = "invoke" /\ th'[t].pc = "l307r" /\ th[t].path = "hier") =>
               /\ th'[t].next_level =
                      Append(th[t].next_level, BatchOutput(th[t].lvl, th[t].bi))
               /\ th'[t].bi = th[t].bi
         /\ (th[t].pc = "after" /\ th'[t].pc = "hfor") =>
               /\ th'[t].bi = th[t].bi + 10
               /\ th'[t].next_level = th[t].next_level
         /\ (th[t].pc = "hfor" /\ th'[t].pc = "hwhile") =>
               /\ Len(th'[t].cur) = Batches(Len(th[t].cur))
               /\ \A j \in 1..Len(th'[t].cur) :
                      th'[t].cur[j] = BatchOutput(th[t].lvl, 10 * (j - 1))]_vars

\* the three batches of twenty-five summaries gave the list of the next level,
\* in batch order, and its batch is requested
C12_Witness ==
    \E t \in Threads :
        /\ th[t].pc = "retry" /\ th[t].path = "hier" /\ th[t].lvl = 1
        /\ th[t].cur = <<BatchOutput(0, 0), BatchOutput(0, 10), BatchOutput(0, 20)>>
        /\ th[t].input = Join(th[t].cur)

\* C13: the summaries that _create_master_summary passes to
\* aggregate_summaries are in the order of the scan: the paths of the files
\* they belong to are increasing.
C13_ScanOrder ==
    orch.pc \in {"aggregating", "finished", "returned"} =>
        \A j, k \in 1..Len(orch.valid_paths) :
            j < k => orch.valid_paths[j] < orch.valid_paths[k]

\* no provider of the run hangs
NoHang == \A k \in 1..N : behaviour[k] # "hang"

\* C18: a run is never blocked before it is finished, even when a provider
\* call never returns: a file whose engine call does not return is abandoned
\* and the run goes on.
C18_TimeoutAbandons == orch.pc \notin {"none", "returned", "raised"} => ENABLED NextRun

\* the paths stored in file_summaries
SummaryPaths == {orch.file_summaries[k].path : k \in 1..Len(orch.file_summaries)}

\* the entries of file_summaries that are errors
ErrorEntries == {k \in 1..Len(orch.file_summaries) : ~IsValidEntry(orch.file_summaries[k])}

\* C19: when summarize_file returns an error response for a file, its future
\* raises; collecting a future that raised stores a summary starting with
\* 'Error:' under the path of its file and appends one entry to the errors,
\* leaving the other files as they are; when _process_files_parallel has
\* returned every file has exactly one entry in file_summaries and the errors
\* are as many as the error entries; and, no provider hanging, the run is
\* never blocked and gets to its end.
C19_FailedFileContinues ==
    /\ [][/\ \A t \in Workers :
                (/\ orch.pc = "parallel" /\ orch.wpc[t] = "l219" /\ orch'.job[t] = 0
                 /\ th[t].ret[1].error # NoError) =>
                     orch'.future[orch.job[t]] = "raised"
          /\ \A f \in 1..Len(orch.files) :
                (/\ orch.pc = "parallel"
                 /\ orch.future[f] = "raised" /\ orch'.future[f] = "yielded") =>
                     /\ Len(orch'.file_summaries) = Len(orch.file_summaries) + 1
                     /\ SubSeq(orch'.file_summaries, 1, Len(orch.file_summaries))
                            = orch.file_summaries
                     /\ LET entry == orch'.file_summaries[Len(orch'.file_summaries)]
                        IN /\ entry.path = orch.files[f].path
                           /\ StartsWithError(entry.summary)
                     /\ Len(orch'.errors) = Len(orch.errors) + 1
                     /\ \A g \in 1..Len(orch.files) :
                            g # f => orch'.future[g] = orch.future[g]
                     /\ orch'.pc = "parallel"]_vars
    /\ [](orch.pc \in {"master", "aggregating", "finished"} =>
             /\ Len(orch.file_summaries) = Len(orch.files)
             /\ SummaryPaths = {orch.files[f].path : f \in 1..Len(orch.files)}
             /\ Len(orch.errors) = Cardinality(ErrorEntries)
             /\ orch.files_processed + Len(orch.errors) = Len(orch.files))
    /\ []((NoHang /\ orch.pc \notin {"returned", "raised"}) => ENABLED NextRun)
    /\ (NoHang /\ orch.pc = "parallel") ~> (orch.pc = "finished")

\* of two files the first got an error response from the engine, the second
\* was collected before it and summarised, and its summary was aggregated
C19_Witness ==
    /\ orch.pc = "finished"
    /\ Len(orch.files) = 2
    /\ orch.file_summaries =
           <<[path |-> 2, summary |-> Strip(Respond(0, 0))],
             [path |-> 1, summary |-> ErrorSummary(1)]>>
    /\ orch.errors = <<ErrorMsg(1)>>
    /\ orch.files_processed = 1
    /\ orch.valid_paths = <<2>>
    /\ th[0].pc = "done" /\ th[0].ret[1].error = NoError

\* C14: for every text T and budget B >= 0, truncate_text(T, B) has at most B
\* tokens and truncating it again with B gives it back.
C14_TruncateIdempotentBounded ==
    fn.op = "truncate_text" =>
        /\ Len(fn.out) >= 1 => count_tokens(fn.out[1]) <= fn.max_tokens
        /\ Len(fn.out) = 2 => fn.out[2] = fn.out[1]

\* the positions of the configs that have an adapter class whose constructor
\* returns
Surviving(models) ==
    {k \in 1..Len(models) :
        models[k].provider \in {"perplexity", "openai", "anthropic"} /\ models[k].constructs}

\* C15: _initialize_providers skips the configs whose adapter cannot be
\* constructed and keeps the others in the order of the configuration: the
\* j-th provider of the chain is the j-th surviving config; it raises
\* AIInterfaceError exactly when none survives, so a chain that is returned is
\* not empty.
C15_ChainConstruction ==
    (fn.op = "_initialize_providers" /\ fn.out # <<>>) =>
        LET models == fn.models
            out == fn.out[1]
            kept == Surviving(models)
        IN /\ out.raised <=> kept = {}
           /\ ~out.raised => out.providers # <<>>
           /\ Len(out.providers) = Cardinality(kept)
           /\ \A k \in kept :
                 out.providers[Cardinality({x \in kept : x <= k})] = models[k]

\* of three configs the first has an unknown provider, the second survives,
\* the third fails in its constructor: the chain is the second alone
C15_Witness ==
    /\ fn.op = "_initialize_providers" /\ fn.out # <<>>
    /\ Len(fn.models) = 3
    /\ fn.models[1].provider = "unknown"
    /\ fn.models[3].provider = "openai" /\ ~fn.models[3].constructs
    /\ ~fn.out[1].raised
    /\ fn.out[1].providers = <<fn.models[2]>>

\* C16: the response of summarize_file and aggregate_summaries has
\* fallback_used set exactly when the provider the call ended on (the one that
\* answered, or the last one attempted) is not provider 0; no later provider
\* was invoked, a failed call invoked this provider last if it invoked any,
\* and a response without error names this provider.
C16_FallbackFlag ==
    \A t \in Threads :
        Done(t) =>
            /\ Response(t).fallback_used <=> th[t].i > 1
            /\ th[t].last <= th[t].i
            /\ Response(t).error # NoError => th[t].last \in {0, th[t].i}
            /\ \A k \in 1..N : k > th[t].i => th[t].inv[k] = 0
            /\ Response(t).error = NoError =>
                  /\ Response(t).provider_used = providers[th[t].i].provider
                  /\ Response(t).model_used = providers[th[t].i].model

\* one call answered by the second provider and flagged, one that failed on
\* the third and last provider and is flagged too
C16_Witness ==
    \E t \in Threads :
        /\ Done(t) /\ Response(t).fallback_used
        /\ \/ th[t].i = 2 /\ Response(t).error = NoError /\ th[t].kind = "summarize"
           \/ th[t].i = 3 /\ Response(t).error # NoError /\ th[t].kind = "aggregate"

\* C17: with fallback disabled no provider after provider 0 is ever attempted
\* or invoked, whatever the chain length, and when the request of provider 0
\* raises the call returns at once an error response: error set, an 'Error:'
\* summary, fallback_used false.
C17_FallbackDisabled ==
    /\ [](\A t \in Threads :
            (~config.fallback_enabled /\ th[t].pc # "idle") =>
                /\ th[t].i = 1
                /\ \A k \in 2..N : th[t].inv[k] = 0
                /\ (Done(t) /\ th[t].exc = 1) =>
                      /\ Response(t).error # NoError
                      /\ StartsWithError(Response(t).summary)
                      /\ ~Response(t).fallback_used)
    /\ [][\A t \in Threads :
            (~config.fallback_enabled /\ th[t].pc = "except" /\ th'[t] # th[t]) =>
                /\ th'[t].pc = "done"
                /\ Len(th'[t].ret) = 1]_vars

\* fallback disabled, a chain of three: provider 0 reduced a batch, then
\* exhausted its retries on the next, and the aggregation ended in an error
C17_Witness ==
    \E t \in Threads :
        /\ ~config.fallback_enabled /\ N = 3
        /\ Done(t) /\ th[t].kind = "aggregate" /\ th[t].path = "hier"
        /\ th[t].exc = 1 /\ total_requests > 0
        /\ th[t].fails[1] = config.retry_attempts /\ config.retry_attempts >= 2

\* C20: when a batch request of the hierarchical reduction has exhausted its
\* retries on provider i, batches being reduced already, the next provider
\* is given that batch and the reduction goes on from the batches reduced.
C20_BatchFallback ==
    [][\A t \in Threads :
         (/\ th[t].pc = "for" /\ th[t].kind = "aggregate" /\ th[t].i > 1
          /\ th[t].path = "hier" /\ th[t].next_level # <<>>
          /\ th'[t].pc # "for") =>
             /\ th'[t].path = "hier"
             /\ th'[t].cur = th[t].cur
             /\ th'[t].next_level = th[t].next_level
             /\ th'[t].lvl = th[t].lvl
             /\ th'[t].bi = th[t].bi]_vars

RECURSIVE SumSeq(_)
\* the sum of a sequence of numbers
SumSeq(s) == IF s = <<>> THEN 0 ELSE Head(s) + SumSeq(Tail(s))

\* the invokes of the call that answered
Answered(t) == SumSeq(th[t].inv) - SumSeq(th[t].fails) - th[t].inflight

\* C21: a successful summarize_file or aggregate_summaries call, single-shot
\* or hierarchical, on an engine called from one thread, returns as
\* tokens_used the input and output tokens of the requests it made, which is
\* the amount it added to total_tokens_used whatever calls came before it,
\* and it adds to total_requests the number of its requests that answered.
C21_TokensUsedIsIncrease ==
    \A t \in Threads :
        (Done(t) /\ Response(t).error = NoError) =>
            /\ Response(t).tokens_used = th[t].sent
            /\ Response(t).tokens_used =
                   total_tokens_used - th[t].at_start.total_tokens_used
            /\ total_requests - th[t].at_start.total_requests = Answered(t)

\* the failed invokes of the call on the providers named name
FailsOn(t, name) ==
    SumSeq([k \in 1..N |-> IF providers[k].provider = name THEN th[t].fails[k] ELSE 0])

\* in this step an invoke of a provider named name raises
Raises(name) ==
    \E t \in Threads :
        /\ th[t].pc = "invoke" /\ th'[t].pc = "retry"
        /\ providers[th[t].i].provider = name

\* in this step a request that answered is counted for a provider named name
Counts(name) ==
    \E t \in Threads :
        /\ th[t].pc = "l307r" /\ th'[t].pc = "after"
        /\ providers[th[t].i].provider = name

\* C22: over calls that do not overlap, a step in which an invoke of a
\* provider named p raises adds exactly 1 to provider_stats[p].errors, in a
\* retry loop that answers later and in a hierarchical batch as well, and no
\* other step changes it; the entry of p is created by the first invoke of p
\* that raises or the first request of p that is counted, and by nothing
\* else; so the errors of p are those it had when a call started plus the
\* failed invokes of the call on providers named p.
C22_ErrorsCountFailures ==
    /\ [][\A p \in ProviderNames :
            /\ StatsOf(p)'.errors = StatsOf(p).errors + (IF Raises(p) THEN 1 ELSE 0)
            /\ Raises(p) \/ Counts(p) => provider_stats'[p] # 0
            /\ (provider_stats[p] = 0 /\ provider_stats'[p] # 0) =>
                  /\ Raises(p) \/ Counts(p)
                  /\ StatsOf(p)' = [requests |-> IF Counts(p) THEN 1 ELSE 0,
                                    tokens |-> StatsOf(p)'.tokens,
                                    errors |-> IF Raises(p) THEN 1 ELSE 0]
            /\ provider_stats[p] # 0 => provider_stats'[p] = provider_stats[p]]_vars
    /\ [](\A t \in Threads : \A p \in ProviderNames :
            th[t].pc # "idle" =>
                StatsOf(p).errors = th[t].at_start.stats[p].errors + FailsOn(t, p))

\* the second call on the engine, a hierarchical aggregation, has ended
\* without error after failed invokes, two providers of the chain share the
\* name, and errors were counted before the call
C22_Witness ==
    \E t \in Threads :
        /\ Done(t) /\ ncalls = 2 /\ th[t].path = "hier" /\ Response(t).error = NoError
        /\ providers = <<OpenAI, OpenAI35>>
        /\ th[t].at_start.stats["openai"].errors >= 2
        /\ th[t].fails[1] = 2 /\ th[t].fails[2] = 1 /\ total_requests >= 3
        /\ StatsOf("openai").errors >= 5

\* C23: in a retry loop the sleep after the failed try number k (k = 0, 1,
\* ...) is of 2^k seconds, uncapped, and there is one after every failed try
\* that another try follows and none after the last permitted try: while
\* tries are left the sleeps are as many as the failed tries, and a loop that
\* has exhausted its tries (the failure is raised to the fallback loop) has
\* slept exactly retry_attempts - 1 times.
C23_BackoffSchedule ==
    \A t \in Threads :
        th[t].pc \in {"retry", "invoke", "except"} =>
            /\ \A j \in 1..Len(th[t].sleeps) : th[t].sleeps[j] = 2 ^ (j - 1)
            /\ Len(th[t].sleeps) =
                   IF th[t].attempt < config.retry_attempts THEN th[t].attempt
                   ELSE config.retry_attempts - 1

\* the aggregation of thread t is on its single request
OnSingle(t) ==
    th[t].path = "single" /\ th[t].pc \in {"retry", "invoke", "l307r", "after"}

\* C24: aggregate_summaries chooses between the single request and the
\* hierarchical reduction for every provider it tries, the first and those
\* it falls back to, by that provider's own budget: the summaries joined by
\* blank lines are within min(context_limit(model) - 1000, max_tokens)
\* exactly when the provider gets one request (with its retries), every
\* invoke of which carries that whole concatenation, not truncated, and whose
\* answer is returned as the result with no other request made to the
\* provider; else the provider starts the hierarchical reduction on the
\* summaries.
C24_PathPerProvider ==
    /\ [][\A t \in Threads :
            (th[t].pc = "for" /\ th[t].kind = "aggregate" /\ th'[t].pc # "for") =>
                LET mc == providers[th[t].i]
                    combined == Join(th[t].summaries)
                    budget == Min(get_model_context_limit(mc.model) - 1000, mc.max_tokens)
                IN /\ th'[t].i = th[t].i
                   /\ IF count_tokens(combined) <= budget
                      THEN /\ th'[t].path = "single" /\ th'[t].pc = "retry"
                           /\ th'[t].prompt = combined
                      ELSE /\ th'[t].path = "hier" /\ th'[t].pc = "hwhile"
                           /\ th'[t].cur = th[t].summaries]_vars
    /\ [][\A t \in Threads :
            (OnSingle(t) /\ th'[t] # th[t]) =>
                /\ th'[t].i = th[t].i
                /\ th'[t].pc \in {"retry", "invoke", "l307r", "after", "except", "done"}
                /\ th'[t].pc \notin {"except", "done"} =>
                       th'[t].prompt = Join(th[t].summaries)
                /\ th[t].pc = "after" =>
                       /\ th'[t].pc = "done"
                       /\ th'[t].ret[1].summary = Strip(th[t].response)
                       /\ th'[t].ret[1].provider_used = providers[th[t].i].provider
                       /\ th'[t].ret[1].error = NoError
                       /\ th[t].inv[th[t].i] = th[t].fails[th[t].i] + 1]_vars

\* eleven summaries over the budget of the first provider and within the
\* budget of the second: the first reduced a batch and failed on the next,
\* the second answered a single request with all eleven
C24_Witness ==
    \E t \in Threads :
        /\ Done(t) /\ th[t].kind = "aggregate" /\ th[t].path = "single" /\ th[t].i = 2
        /\ Len(th[t].summaries) = 11 /\ total_requests = 2
        /\ th[t].prompt = Join(th[t].summaries)
        /\ Response(t).error = NoError

\* the sum over the providers of a counter of provider_stats
SumStats(field) ==
    StatsOf("openai")[field] + StatsOf("anthropic")[field] + StatsOf("perplexity")[field]

\* C25: in every state reached by calls that do not overlap, total_requests
\* is the sum of the providers' requests and total_tokens_used the sum of the
\* providers' tokens.
C25_LedgerConsistent ==
    /\ total_requests = SumStats("requests")
    /\ total_tokens_used = SumStats("tokens")

\* two calls are over, requests of two providers were counted, batches of a
\* hierarchical reduction among them, and invokes had failed
C25_Witness ==
    /\ ncalls = 2 /\ \A t \in Threads : Done(t)
    /\ StatsOf("openai").requests >= 2 /\ StatsOf("anthropic").requests >= 1
    /\ StatsOf("openai").errors >= 1
    /\ total_requests >= 4 /\ total_tokens_used > 0

\* every provider the aggregation has tried took the single request
SingleShotOnly(t) ==
    /\ th[t].kind = "aggregate"
    /\ \A k \in 1..th[t].i :
          count_tokens(Join(th[t].summaries)) <= MaxContentTokens(providers[k])

\* C26: a summarize_file call, or an aggregate_summaries call that was
\* single-shot on every provider it tried, that ends with an error response
\* leaves total_requests, total_tokens_used and the requests and tokens of
\* every provider as they were when it started; the errors of a provider
\* grow by its failed invokes, an entry created by the call holding zero
\* requests and tokens; and the response reports tokens_used = 0.
C26_FailureFrame ==
    \A t \in Threads :
        (/\ Done(t) /\ Response(t).error # NoError
         /\ th[t].kind = "summarize" \/ SingleShotOnly(t)) =>
            /\ total_requests = th[t].at_start.total_requests
            /\ total_tokens_used = th[t].at_start.total_tokens_used
            /\ \A p \in ProviderNames :
                  /\ StatsOf(p).requests = th[t].at_start.stats[p].requests
                  /\ StatsOf(p).tokens = th[t].at_start.stats[p].tokens
                  /\ StatsOf(p).errors = th[t].at_start.stats[p].errors + FailsOn(t, p)
            /\ Response(t).tokens_used = 0

\* the second call on the engine, a single-shot aggregation, failed on both
\* providers of the chain after a request of the second was counted in the
\* call before
C26_Witness ==
    \E t \in Threads :
        /\ Done(t) /\ Response(t).error # NoError /\ SingleShotOnly(t)
        /\ th[t].i = 2 /\ th[t].fails[1] = 2 /\ th[t].fails[2] = 2
        /\ th[t].summaries # <<>>
        /\ th[t].at_start.total_requests >= 1
        /\ StatsOf(providers[2].provider).errors > th[t].at_start.stats[providers[2].provider].errors

\* validate_config: 'retry_attempts' must be an integer between 0 and 10
ValidRetryAttempts(val) == ~(val < 0 \/ val > 10)

\* the fallback loop of the call is through with provider k
Left(t, k) ==
    \/ k < th[t].i
    \/ k = th[t].i /\ th[t].pc \in {"except", "done"}

\* the call has treated provider k as failed
TreatedAsFailed(t, k) ==
    \/ k < th[t].i
    \/ k = th[t].i /\ th[t].exc = k /\ th[t].pc \in {"except", "done"}

\* C27: in a summarize_file call, for every retry_attempts that validate_config
\* accepts, a provider the fallback loop has reached and left was invoked at
\* least once and at most retry_attempts times, a provider treated as failed
\* has exactly retry_attempts failed invokes, and the invokes of the call are
\* at most N * retry_attempts.
C27_InvocationBounds ==
    \A t \in Threads :
        (th[t].kind = "summarize" /\ ValidRetryAttempts(config.retry_attempts)) =>
            /\ \A k \in 1..N :
                  /\ th[t].inv[k] <= config.retry_attempts
                  /\ Left(t, k) => th[t].inv[k] >= 1
                  /\ TreatedAsFailed(t, k) => th[t].fails[k] = config.retry_attempts
            /\ SumSeq(th[t].inv) <= N * config.retry_attempts

\* the text is what a provider answered (response.content.strip())
IsProviderOutput(text) == \E lvl \in 0..MaxLen, b \in 0..MaxLen : text = Strip(Respond(lvl, b))

\* C28: an aggregate_summaries call on a list that is not empty, a list of
\* one summary over the provider's budget included, that returns a response
\* without error has had at least one invoke answered, and the summary it
\* returns is what a provider answered and none of the input summaries.
C28_OutputFromProvider ==
    \A t \in Threads :
        (/\ Done(t) /\ th[t].kind = "aggregate" /\ th[t].summaries # <<>>
         /\ Response(t).error = NoError) =>
            /\ Answered(t) >= 1
            /\ IsProviderOutput(Response(t).summary)
            /\ \A k \in 1..Len(th[t].summaries) : Response(t).summary # th[t].summaries[k]

\* the text is the content of file f as read, or one of its chunks
IsContentOf(text, f) ==
    LET content == FileContent(orch.files[f])
        chunks == chunk_generic(content)
    IN \/ text = content
       \/ \E c \in 1..Len(chunks) : text = chunks[c]

\* what the emit passed belongs to the file the worker emitted it for: its
\* file_info and content, and its request and response where they are set
BelongsToFile(e) ==
    /\ e.file_info = e.file
    /\ IsContentOf(e.content, e.file)
    /\ e.request \in {0, e.file}
    /\ e.response \in {0, e.file}

\* C29: whenever a worker emits BEFORE_AI_REQUEST, AFTER_AI_RESPONSE or
\* BEFORE_CHUNK for a file, the context passed to the plugins has the
\* file_info and content of that file and no request or response of another
\* file, however the workers interleave.
C29_ContextPerFile ==
    \A t \in Workers :
        (/\ orch.emit[t] # <<>>
         /\ orch.emit[t].hook \in {"BEFORE_AI_REQUEST", "AFTER_AI_RESPONSE", "BEFORE_CHUNK"}) =>
            BelongsToFile(orch.emit[t])

\* the paths of the files that had a summarize_file call return without error
SucceededPaths == {orch.files[f].path : f \in orch.succeeded}

\* C30: the summaries passed to aggregate_summaries are summaries of files
\* for which a summarize_file call succeeded: a file whose summarization
\* failed, a large file whose chunks all got error responses included, has no
\* summary among them; and when no file succeeded the engine is not called
\* and the master summary is "No valid summaries could be generated.".
C30_MasterInputFilter ==
    orch.pc \in {"aggregating", "finished", "returned"} =>
        /\ \A k \in 1..Len(orch.valid_paths) : orch.valid_paths[k] \in SucceededPaths
        /\ SucceededPaths = {} =>
              /\ th[0].pc = "idle"
              /\ orch.pc # "aggregating" /\ orch.master = NoValidSummaries

====
